---- MODULE Spec2Model ----
(***************************************************************************)
(* Verification model of the PTS instrument-automation scripts:            *)
(*   - qijian/CT_W.py, CT_P.py, CT_L.py: TestRunner sweeps and their GUI   *)
(*   - zhongzi/Rin_FSV3004.py: TestRunner.run_rin and RinGUI               *)
(* Real numbers (temperatures, currents) are integers in units of 1e-7, so *)
(* that round(t, 6) is a real rounding and 0.1 and 1e-6 are exact.          *)
(***************************************************************************)
EXTENDS Integers, Sequences, FiniteSets, TLC

VARIABLES
    \* ---- TestRunner / CT_*_GUI (qijian) ----
    faults,      \* the kinds of instrument failure that can happen in this behaviour
    prog,        \* which script: "W" (CT_W, CT_P: acquisition raises) or "L" (CT_L)
    params,      \* GUI parameters p captured by start_groupN: [g -> <<start, stop, step, fine_center, fine_range>>]
    laser,       \* self.laser is connected (TRUE) or None (FALSE)
    runner,      \* self.runner exists
    stopFlag,    \* TestRunner._stop
    flagWriter,  \* who wrote _stop last: "init", "start", "run", "stop"
    running,     \* [g -> groupN_running]
    pc,          \* [g -> position of group g's worker thread]
    temps,       \* [g -> list of setpoints of the run]
    idx,         \* [g -> number of loop iterations begun]
    waitTime,    \* [g -> wait_time, in check intervals]
    stable,      \* [g -> stable]
    summary,     \* [g -> rows of the group's summary file]
    errs,        \* [g -> error lines the run's loop has logged: <<step, kind>>]
    returned,    \* [g -> <<step, value>> of the acquisitions that returned (history)]
    setAt,       \* [g -> iteration in flight when _stop was first set during the sweep, else -1]
    interrupted, \* [g -> steps in flight (setpoint sent, acquisition unfinished) when _stop was set]
    linkLost,    \* the connection to the acquisition instrument (OSA, analyzer, power meter) is gone
    readback,    \* [g -> what the latest poll of the wait in progress read: "near", "far", "none"; "n/a" outside a wait]
    timedOut,    \* [g -> the wait of the current iteration ended with the "not stable within" warning]
    \* ---- Rin_FSV3004: RinGUI / TestRunner.run_rin ----
    rinPc,       \* position of the worker thread
    rinSeg,      \* segments of measurement_params gone through so far
    rinFiles,    \* segments whose trace file was stored and copied
    raOpen,      \* ra.instrument is an open VISA session
    rinStop,     \* RinGUI.runner._stop or ra.stop_flag
    runningTask, \* RinGUI.running_task
    rinEnded,    \* how run_rin last returned: "none", "completed", "cancelled", "failed"
    \* ---- range generation (TestRunner._float_range and friends) ----
    rIn,         \* the input <<start, stop, step, fine_center, fine_range>>
    rPhase,      \* "in" before, "out" after the computation
    rOut,        \* _float_range(start, stop, step)
    rBuilt,      \* _build_temps_with_fine(...)
    rTemps,      \* the list run_group1 iterates (CT_L)
    rFine,       \* <<fine_lower, fine_upper>> as run_group1 uses them (CT_L)
    rWarn,       \* warning lines logged about a fine range outside the sweep
    \* ---- SingleFrequencyGUI._wait_wavelength_stable (zhongzi) ----
    wlPc,        \* "idle", "loop" (inside the while), "done"
    wlTarget,    \* the wavelength last sent by set_wavelength_nm (wl0)
    wlStop,      \* stop_flag
    wlSame,      \* same
    wlLast,      \* last_val (WlNone: None)
    wlElapsed,   \* time.time() - t0, in poll intervals
    wlRead,      \* wl of the latest iteration (WlNone: None or not read)
    wlResult,    \* "none", "stable" (True), "timeout" (False), "interrupt" (KeyboardInterrupt)
    \* ---- Rin_4051: RinWorkflow.run_measurement / Rin_4051.single_sweep_fetch ----
    mPc,         \* position of run_measurement: "idle", "seg", "opc", "fetch", "end"
    mIdx,        \* segments begun
    mStop,       \* RinWorkflow.stop_flag
    mPolls,      \* time spent in the *OPC? loop, in sleeps of 0.05 s
    mSwept,      \* *OPC? answered "1" within wait_time
    mTraces,     \* traces saved and appended to freqs_all / values_all: <<segment, "complete" | "partial">>
    mLog         \* segments logged as skipped or failed

runnerVars == <<faults, prog, params, laser, runner, stopFlag, flagWriter, running, pc, temps,
                idx, waitTime, stable, summary, errs, returned, setAt,
                interrupted, timedOut, readback, linkLost>>
rinVars == <<rinPc, rinSeg, rinFiles, raOpen, rinStop, runningTask, rinEnded>>
rangeVars == <<rIn, rPhase, rOut, rBuilt, rTemps, rFine, rWarn>>
wlVars == <<wlPc, wlTarget, wlStop, wlSame, wlLast, wlElapsed, wlRead, wlResult>>
mVars == <<mPc, mIdx, mStop, mPolls, mSwept, mTraces, mLog>>
VARIABLES
    \* ---- PowerMeterController.read_power (qijian/CT_P.py) ----
    pmResp,      \* what the meter answers to each of the five candidate commands, in order
    pmRaw,       \* what inst.read() gives afterwards
    pmPhase,     \* "in" before, "out" after the call
    pmOut        \* what read_power did: <<"return", source, value>> or <<"RuntimeError">>
pmVars == <<pmResp, pmRaw, pmPhase, pmOut>>

PmIdle ==
    /\ pmResp = <<>>
    /\ pmRaw = "error"
    /\ pmPhase = "in"
    /\ pmOut = <<>>
VARIABLES
    \* ---- PeakDetector.find (zhongzi/SingleFrequency.py) ----
    pkY,         \* y_dbm, in units of 0.01 dB
    pkG,         \* self.guard
    pkProm,      \* self.prom_db, in units of 0.01 dB
    pkPhase,     \* "in" before, "out" after the call
    pkOut,       \* the peaks returned, as the indices i of the samples (0-based), in order
    pkWin        \* [i -> <<indices of left_nb, indices of right_nb>>] for every i the loop went through
pkVars == <<pkY, pkG, pkProm, pkPhase, pkOut, pkWin>>

PkIdle ==
    /\ pkY = <<>>
    /\ pkG = 1
    /\ pkProm = 0
    /\ pkPhase = "in"
    /\ pkOut = <<>>
    /\ pkWin = <<>>
VARIABLES
    \* ---- SingleFrequencyGUI._continuous_coarse_monitor_until_stable (zhongzi) ----
    cmPc,        \* "idle", "loop", "done"
    cmPolls,     \* traces read so far in this call
    cmDetected,  \* detected_peaks
    cmSaved,     \* the peaks handed to save_csv_png in this call, in order (frequencies)
    cmFound      \* found
cmVars == <<cmPc, cmPolls, cmDetected, cmSaved, cmFound>>

CmIdle ==
    /\ cmPc = "idle"
    /\ cmPolls = 0
    /\ cmDetected = {}
    /\ cmSaved = <<>>
    /\ cmFound = FALSE
VARIABLES
    \* ---- log / status messages on their way to the UI ----
    lgGui,       \* which transport: "direct" (CT_W_GUI.log), "after" (LineWidthGUI.log), "queue" (MainApplication)
    lgSent,      \* [producer -> number of messages it has produced]
    lgPending,   \* messages handed over and not yet shown: Tk's timer events, or the multiprocessing queue
    lgBox        \* what the UI has shown, in order: <<producer, number>>
lgVars == <<lgGui, lgSent, lgPending, lgBox>>

Producers == {1, 2}

LgIdle ==
    /\ lgGui = "direct"
    /\ lgSent = [w \in Producers |-> 0]
    /\ lgPending = <<>>
    /\ lgBox = <<>>
\* SingleFrequencyGUI._run: the scan worker, its restore block and the
\* temperature/current control thread it starts.
VARIABLES
    sfPc,        \* position of the _run worker
    sfRun,       \* number of workers start() has created
    sfStopFlag,  \* stop_flag
    sfPauseFlag, \* pause_flag
    sfInit,      \* which of wl0, cur0, temp0 are not None
    sfRestored,  \* which of them the restore block has set back
    sfClosed,    \* sa.close() was called by the current worker
    sfWhy,       \* how the current worker left its try block
    sfCtl,       \* position of each worker's temp_cur_control_thread
    sfSets       \* setpoints each control thread has sent

sfVars == <<sfPc, sfRun, sfStopFlag, sfPauseFlag, sfInit, sfRestored, sfClosed, sfWhy, sfCtl, sfSets>>

MaxRuns == 2

MaxSets == 2

Runs == 1..MaxRuns

SfIdle ==
    /\ sfPc = "idle"
    /\ sfRun = 0
    /\ sfStopFlag = FALSE
    /\ sfPauseFlag = FALSE
    /\ sfInit = {}
    /\ sfRestored = {}
    /\ sfClosed = FALSE
    /\ sfWhy = "none"
    /\ sfCtl = [r \in Runs |-> "none"]
    /\ sfSets = [r \in Runs |-> 0]
\* Rin_4051_GUI: start_test, _worker_measure, stop_test.  Analyzer and
\* workflow objects are numbered in the order start_test creates them.
VARIABLES
    gmMade,      \* number of analyzer/workflow pairs created; self.analyzer and self.workflow are pair gmMade
    gmPc,        \* position of the worker thread: "none", "connect", "run", "close", "done"
    gmRunOn,     \* the pair whose run_measurement the worker is executing (0: none)
    gmOpen,      \* analyzers that are connected and not closed
    gmStopReq    \* workflows whose request_stop was called

gmVars == <<gmMade, gmPc, gmRunOn, gmOpen, gmStopReq>>

MaxMade == 3

GmIdle ==
    /\ gmMade = 0
    /\ gmPc = "none"
    /\ gmRunOn = 0
    /\ gmOpen = {}
    /\ gmStopReq = {}
\* RinGUI: the three start buttons and the worker threads they create.
VARIABLES
    rtTask,      \* RinGUI.running_task ("none" for None)
    rtKind,      \* the task each created worker thread runs, in creation order
    rtPhase      \* each worker thread: "spawned", "running" or "ended"

rtVars == <<rtTask, rtKind, rtPhase>>

MaxTasks == 3

RtIdle ==
    /\ rtTask = "none"
    /\ rtKind = <<>>
    /\ rtPhase = <<>>
\* IntegratedPlatform (main_platform.py): module check boxes, tabs and instances.
VARIABLES
    pl           \* [checked: modules whose check_vars entry is True,
                 \*  active: keys of active_modules, tabs: keys of name_to_tab_id,
                 \*  running: active modules whose test worker is running,
                 \*  orphans: modules whose instance was dropped while its worker
                 \*           was running and without a stop request]

plVars == <<pl>>

PlIdle == pl = [checked |-> {}, active |-> {}, tabs |-> {}, running |-> {}, orphans |-> {}]
\* LineWidthGUI.start_measurement: the measurement task and the signal generator.
VARIABLES
    lwPc,        \* position of the task: "idle", "init", "span", "gen", "extra", "gen_off", "final", "ended"
    lwSpan,      \* entries of span_values the loop has taken
    lwStop,      \* self.tester.stop_flag
    lwResults,   \* len(all_results)
    lwOutput     \* the signal generator's output is on

lwVars == <<lwPc, lwSpan, lwStop, lwResults, lwOutput>>

NumSpans == 5

LwIdle ==
    /\ lwPc = "idle"
    /\ lwSpan = 0
    /\ lwStop = FALSE
    /\ lwResults = 0
    /\ lwOutput = FALSE
\* SingleFrequencyGUI._run: the setpoint ramps of the control thread and the
\* fine-scan window of the main loop.  Temperatures and currents in units of
\* one step of the smallest input, frequencies in MHz.
VARIABLES
    scLim,       \* [which -> <<lower limit, upper limit, step>>] for "temp" and "cur"
    scVal,       \* shared_data['temp'] and shared_data['cur']
    scInc,       \* shared_data['temp_increasing'] and shared_data['cur_increasing']
    scCenter,    \* center
    scWrapped    \* the main loop has gone back to the first window

scVars == <<scLim, scVal, scInc, scCenter, scWrapped>>

f_start == 0

f_stop == 18000

ScanSpan == 500

ScanStep == 500

ScIdle ==
    /\ scLim = [w \in {"temp", "cur"} |-> <<0, 0, 1>>]
    /\ scVal = [w \in {"temp", "cur"} |-> 0]
    /\ scInc = [w \in {"temp", "cur"} |-> TRUE]
    /\ scCenter = f_start + ScanSpan \div 2
    /\ scWrapped = FALSE
vars == <<runnerVars, rinVars, rangeVars, wlVars, mVars, pmVars, pkVars, cmVars, lgVars, sfVars, gmVars, rtVars, plVars, lwVars, scVars>>

-----------------------------------------------------------------------------
(* Numbers *)

\* One degree Celsius / one mA in model units (1e-7).
Deg == 10000000
\* 1e-6, the resolution of round(t, 6).
Micro == 10
\* The fine step 0.1 of the fine sub-range.
FineStep == 1000000

Abs(x) == IF x < 0 THEN -x ELSE x
Min2(a, b) == IF a < b THEN a ELSE b
Max2(a, b) == IF a > b THEN a ELSE b

\* round(t, 6): the nearest multiple of 1e-6, an exact tie going to the even one.
Round6(t) ==
    LET r == t % Micro
        lo == t - r
    IN  IF 2 * r < Micro THEN lo
        ELSE IF 2 * r > Micro THEN lo + Micro
        ELSE IF (lo \div Micro) % 2 = 0 THEN lo ELSE lo + Micro

\* math.ceil / math.floor, to whole degrees.
Ceil(t) == LET r == t % Deg IN IF r = 0 THEN t ELSE t - r + Deg
Floor(t) == t - (t % Deg)

\* t <= stop + 1e-9 and t >= stop - 1e-9: on the 1e-7 grid the slack of 1e-9
\* is a hundredth of a unit, so it admits exactly the grid points <= (>=) stop.
LeqSlack(t, stop) == t <= stop
GeqSlack(t, stop) == t >= stop

\* `while t <= stop + 1e-9: out.append(round(t, 6)); t += mag`, mag > 0: the
\* loop runs for t, t + mag, ... as long as the value is <= stop.
Ascend(t, stop, mag) ==
    IF LeqSlack(t, stop)
    THEN [k \in 1..((stop - t) \div mag + 1) |-> Round6(t + (k - 1) * mag)]
    ELSE <<>>

DescendOpen(t, stop, mag) ==
    [k \in 1..((t - stop + mag - 1) \div mag) |-> Round6(t - (k - 1) * mag)]

\* `while t >= stop - 1e-9: out.append(round(t, 6)); t -= mag`, mag > 0.
Descend(t, stop, mag) ==
    IF GeqSlack(t, stop)
    THEN [k \in 1..((t - stop) \div mag + 1) |-> Round6(t - (k - 1) * mag)]
    ELSE <<>>

\* TestRunner._float_range for step # 0 (step = 0 raises ValueError).
_float_range(start, stop, step) ==
    IF start < stop THEN Ascend(start, stop, Abs(step))
    ELSE Descend(start, stop, Abs(step))

\* frange inside _build_temps_with_fine: descending only when a > b.
frange(a, b, s) ==
    IF a > b THEN Descend(a, b, Abs(s)) ELSE Ascend(a, b, Abs(s))

Last(s) == s[Len(s)]
Front(s) == SubSeq(s, 1, Len(s) - 1)
Rest(s) == SubSeq(s, 2, Len(s))

\* list(OrderedDict.fromkeys(xs)): first occurrences, in order.
FromKeys(xs) ==
    LET first == {i \in 1..Len(xs) : \A j \in 1..(i - 1) : xs[j] # xs[i]}
        nth(k) == CHOOSE i \in first : Cardinality({j \in first : j <= i}) = k
    IN  [k \in 1..Cardinality(first) |-> xs[nth(k)]]

Round6All(xs) == [i \in 1..Len(xs) |-> Round6(xs[i])]

-----------------------------------------------------------------------------
(* Setpoint lists (qijian/CT_L.py) *)

\* The clamped fine bounds of _build_temps_with_fine: <<fine_lower, fine_upper>>.
BuildFineBounds(start_temp, end_temp, fine_center, fine_range) ==
    LET orig_upper == Round6(fine_center + fine_range)
        orig_lower == Round6(fine_center - fine_range)
        t_min == IF start_temp > end_temp THEN end_temp ELSE start_temp
        t_max == IF start_temp > end_temp THEN start_temp ELSE end_temp
    IN  << IF orig_lower < t_min THEN t_min ELSE orig_lower,
           IF orig_upper > t_max THEN t_max ELSE orig_upper >>

\* TestRunner._build_temps_with_fine with both fine parameters given, step # 0.
_build_temps_with_fine(start_temp, end_temp, step, fine_center, fine_range) ==
    LET b == BuildFineBounds(start_temp, end_temp, fine_center, fine_range)
        fine_lower == b[1]
        fine_upper == b[2]
        descending == start_temp > end_temp
        dHigh0 == frange(start_temp, fine_upper + step, step)
        dHigh == IF start_temp > fine_upper + Micro /\ dHigh0 # <<>>
                 THEN (IF Abs(Last(dHigh0) - fine_upper) < Micro THEN Front(dHigh0) ELSE dHigh0)
                 ELSE <<>>
        dLow0 == frange(fine_lower - step, end_temp, step)
        dLow == IF fine_lower - step > end_temp + Micro
                THEN (IF dLow0 # <<>> /\ Abs(dLow0[1] - fine_lower) < Micro
                      THEN Rest(dLow0) ELSE dLow0)
                ELSE <<>>
        aLow0 == frange(start_temp, fine_lower - step, step)
        aLow == IF start_temp < fine_lower - Micro
                THEN (IF aLow0 # <<>> /\ Abs(Last(aLow0) - fine_lower) < Micro
                      THEN Front(aLow0) ELSE aLow0)
                ELSE <<>>
        aHigh0 == frange(fine_upper + step, end_temp, step)
        aHigh == IF fine_upper + step < end_temp - Micro
                 THEN (IF aHigh0 # <<>> /\ Abs(aHigh0[1] - fine_upper) < Micro
                       THEN Rest(aHigh0) ELSE aHigh0)
                 ELSE <<>>
        raw == IF descending
               THEN dHigh \o frange(fine_upper, fine_lower, FineStep) \o dLow
               ELSE aLow \o frange(fine_lower, fine_upper, FineStep) \o aHigh
    IN  FromKeys(Round6All(raw))

RunFineBoundsUnclamped(start_temp, end_temp, fine_center, fine_range) ==
    <<Floor(fine_center - fine_range), Ceil(fine_center + fine_range)>>

\* The clamped fine bounds of run_group1 (ceil/floor to whole degrees):
\* <<fine_lower, fine_upper>>.
RunFineBounds(start_temp, end_temp, fine_center, fine_range) ==
    LET orig_upper == Ceil(fine_center + fine_range)
        orig_lower == Floor(fine_center - fine_range)
        min_T == Min2(start_temp, end_temp)
        max_T == Max2(start_temp, end_temp)
    IN  << IF orig_lower < min_T THEN min_T ELSE orig_lower,
           IF orig_upper > max_T THEN max_T ELSE orig_upper >>

\* `if (fine_upper != orig_upper) or (fine_lower != orig_lower): self.log(...)`
\* in run_group1 and in _build_temps_with_fine: the clamping changed a bound.
RunFineWarned(start_temp, end_temp, fine_center, fine_range) ==
    RunFineBounds(start_temp, end_temp, fine_center, fine_range)
        # <<Floor(fine_center - fine_range), Ceil(fine_center + fine_range)>>

BuildFineWarned(start_temp, end_temp, fine_center, fine_range) ==
    BuildFineBounds(start_temp, end_temp, fine_center, fine_range)
        # <<Round6(fine_center - fine_range), Round6(fine_center + fine_range)>>

\* The list `temps` that CT_L's run_group1 iterates: the result of
\* _build_temps_with_fine is overwritten by the list rebuilt from _float_range.
RunGroup1Temps(start_temp, end_temp, step, fine_center, fine_range) ==
    LET b == RunFineBounds(start_temp, end_temp, fine_center, fine_range)
        fine_lower_bound == b[1]
        fine_upper_bound == b[2]
    IN  IF start_temp > end_temp
        THEN (IF start_temp > fine_upper_bound
              THEN _float_range(start_temp, fine_upper_bound, step) ELSE <<>>)
             \o _float_range(fine_upper_bound, fine_lower_bound, FineStep)
             \o (IF fine_lower_bound > end_temp
                 THEN _float_range(fine_lower_bound, end_temp, step) ELSE <<>>)
        ELSE (IF start_temp < fine_lower_bound
              THEN _float_range(start_temp, fine_lower_bound, step) ELSE <<>>)
             \o _float_range(fine_lower_bound, fine_upper_bound, FineStep)
             \o (IF fine_upper_bound < end_temp
                 THEN _float_range(fine_upper_bound, end_temp, step) ELSE <<>>)

-----------------------------------------------------------------------------
(* TestRunner sweeps and the GUI that starts and stops them                *)
(* (qijian/CT_W.py; CT_P.py and CT_L.py share the loop)                     *)

Groups == {1, 2}

\* max_wait_time / check_interval: the polls one stabilization wait may make
\* (delay_s * 5 / 0.5, with delay_s a GUI parameter).
MaxWaitPolls == 2

\* GUI parameter sets <<start, stop, step, fine_center, fine_range>> of the
\* two-group specification: group 1 sweeps 1 -> 0 degrees (2 steps) or has
\* step 0, group 2 sweeps one current.
GuiParams(g) ==
    IF g = 1 THEN {<<Deg, 0, 0, 0, 0>>, <<Deg, 0, Deg, 0, 0>>}
    ELSE {<<Deg, Deg, Deg, 0, 0>>}

\* The parameters of the single five-step sweep: 36.4 -> 36.0 by 0.1, with the
\* fine range 36.2 +- 0.2 (CT_L builds the same five setpoints from it).
Sweep5Params == {<<364 * FineStep, 360 * FineStep, FineStep, 362 * FineStep, 2 * FineStep>>}

\* The instrument failures of the model: laser.set_temperature_C /
\* set_current_mA raising, and the acquisition call failing.
AllFaults == {"set", "acq"}

\* The sweep 36 -> 15 by 1 (fine range 25 +- 1, the GUI default of CT_L).
Sweep22Params == {<<36 * Deg, 15 * Deg, Deg, 25 * Deg, Deg>>}

HeaderRow == [kind |-> "hdr", i |-> 0, t |-> 0, v |-> "hdr"]
DataRow(i, t, v) == [kind |-> "row", i |-> i, t |-> t, v |-> v]

\* The worker is inside the for loop of run_groupN.
LoopPcs == {"set", "loop", "wait_check", "wait_poll", "after_wait", "acquire",
            "acquiring", "append"}

\* laser.set_temperature_C / set_current_mA raised in the current iteration.
SetFailed(g) == \E k \in 1..Len(errs[g]) : errs[g][k] = <<idx[g], "set">>

\* The current step is in flight: its setpoint was sent and its stabilization
\* or acquisition has not finished.
InFlight(g) ==
    /\ pc[g] \in {"wait_check", "wait_poll", "after_wait", "acquire", "acquiring"}
    /\ laser
    /\ ~SetFailed(g)

\* The setpoint list of a run: _float_range for group 1 of CT_W / CT_P, the
\* rebuilt fine list for group 1 of CT_L, the descending current list for group 2.
TempsOf(g, p) ==
    IF g = 2 THEN Descend(p[1], p[2], Abs(p[3]))
    ELSE IF prog = "L" THEN RunGroup1Temps(p[1], p[2], p[3], p[4], p[5])
    ELSE _float_range(p[1], p[2], p[3])

InitRunner(progs) ==
    /\ prog \in progs
    /\ params = [g \in Groups |-> <<0, 0, 0, 0, 0>>]
    /\ laser = FALSE
    /\ runner = FALSE
    /\ stopFlag = FALSE
    /\ flagWriter = "init"
    /\ running = [g \in Groups |-> FALSE]
    /\ pc = [g \in Groups |-> "idle"]
    /\ temps = [g \in Groups |-> <<>>]
    /\ idx = [g \in Groups |-> 0]
    /\ waitTime = [g \in Groups |-> 0]
    /\ stable = [g \in Groups |-> FALSE]
    /\ summary = [g \in Groups |-> <<>>]
    /\ errs = [g \in Groups |-> <<>>]
    /\ returned = [g \in Groups |-> <<>>]
    /\ setAt = [g \in Groups |-> -1]
    /\ interrupted = [g \in Groups |-> {}]
    /\ timedOut = [g \in Groups |-> FALSE]
    /\ readback = [g \in Groups |-> "n/a"]
    /\ linkLost = FALSE

\* CT_W_GUI.start_group1 / start_group2 with parameters drawn from P.  The
\* start button of the group is disabled while the group runs; the other
\* group's button is not.  The first start creates the TestRunner around the
\* laser handle (connected, or None when the connection failed and the user
\* went on with the OSA only); a later start resets the runner's _stop.
StartGroup(g, P) ==
    /\ ~running[g]
    /\ \E p \in P : params' = [params EXCEPT ![g] = p]
    /\ IF runner
       THEN /\ flagWriter' = "start"
            /\ UNCHANGED laser
       ELSE /\ flagWriter' = "init"
            /\ laser' \in BOOLEAN
    /\ runner' = TRUE
    /\ stopFlag' = FALSE
    /\ running' = [running EXCEPT ![g] = TRUE]
    /\ pc' = [pc EXCEPT ![g] = "spawned"]
    /\ UNCHANGED <<faults, prog, linkLost, timedOut, readback, temps, idx, waitTime, stable, summary, errs, returned, setAt,
                   interrupted>>
    /\ UNCHANGED <<rinVars, rangeVars, wlVars, mVars, pmVars, pkVars, cmVars, lgVars, sfVars, gmVars, rtVars, plVars, lwVars, scVars>>

\* CT_W_GUI.stop_group1 / stop_group2 -> TestRunner.stop(): the stop request.
\* (Without a runner or a running group it only logs.)
StopGroup(g) ==
    /\ runner
    /\ running[g]
    /\ stopFlag' = TRUE
    /\ flagWriter' = "stop"
    /\ setAt' = [h \in Groups |->
                    IF pc[h] \in LoopPcs /\ setAt[h] = -1 THEN idx[h] ELSE setAt[h]]
    /\ interrupted' = [h \in Groups |->
                          IF InFlight(h) THEN interrupted[h] \cup {idx[h]}
                          ELSE interrupted[h]]
    /\ UNCHANGED <<faults, prog, linkLost, timedOut, readback, params, laser, runner, running, pc, temps, idx, waitTime,
                   stable, summary, errs, returned>>
    /\ UNCHANGED <<rinVars, rangeVars, wlVars, mVars, pmVars, pkVars, cmVars, lgVars, sfVars, gmVars, rtVars, plVars, lwVars, scVars>>

\* run_groupN up to its for loop: resets _stop, removes the old summary file,
\* builds the setpoint list.  A zero step ends the run before the loop (group 1:
\* _float_range raises ValueError, caught by the outer except; group 2: return).
RunEnter(g) ==
    /\ pc[g] = "spawned"
    /\ stopFlag' = FALSE
    /\ flagWriter' = "run"
    /\ setAt' = [setAt EXCEPT ![g] = -1]
    /\ summary' = [summary EXCEPT ![g] = <<>>]
    /\ returned' = [returned EXCEPT ![g] = <<>>]
    /\ interrupted' = [interrupted EXCEPT ![g] = {}]
    /\ idx' = [idx EXCEPT ![g] = 0]
    /\ IF params[g][3] = 0
       THEN /\ temps' = [temps EXCEPT ![g] = <<>>]
            /\ errs' = [errs EXCEPT ![g] = <<<<0, "run">>>>]
            /\ pc' = [pc EXCEPT ![g] = "finish"]
       ELSE /\ temps' = [temps EXCEPT ![g] = TempsOf(g, params[g])]
            /\ errs' = [errs EXCEPT ![g] = <<>>]
            /\ pc' = [pc EXCEPT ![g] = "loop"]
    /\ UNCHANGED <<faults, prog, linkLost, timedOut, readback, params, laser, runner, running, waitTime, stable>>
    /\ UNCHANGED <<rinVars, rangeVars, wlVars, mVars, pmVars, pkVars, cmVars, lgVars, sfVars, gmVars, rtVars, plVars, lwVars, scVars>>

\* `if self._stop: ... break` at the top of the for loop.
LoopStopCheck == stopFlag

\* The top of `for t in temps`: the list is exhausted, or the stop flag breaks
\* the loop, or the next iteration begins.
LoopTop(g) ==
    /\ pc[g] = "loop"
    /\ IF idx[g] = Len(temps[g]) \/ LoopStopCheck
       THEN /\ pc' = [pc EXCEPT ![g] = "finish"]
            /\ UNCHANGED idx
       ELSE /\ idx' = [idx EXCEPT ![g] = idx[g] + 1]
            /\ pc' = [pc EXCEPT ![g] = IF laser THEN "set" ELSE "acquire"]
    /\ timedOut' = [timedOut EXCEPT ![g] = FALSE]
    /\ UNCHANGED readback
    /\ UNCHANGED <<faults, prog, linkLost, params, laser, runner, stopFlag, flagWriter, running, temps,
                   waitTime, stable, summary, errs, returned, setAt, interrupted>>
    /\ UNCHANGED <<rinVars, rangeVars, wlVars, mVars, pmVars, pkVars, cmVars, lgVars, sfVars, gmVars, rtVars, plVars, lwVars, scVars>>

\* laser.set_temperature_C(t) (set_current_mA(cur) in group 2): it returns and
\* the wait begins after the first sleep, or it raises, which is logged and
\* followed by one sleep.
SetPoint(g) ==
    /\ pc[g] = "set"
    /\ \/ /\ waitTime' = [waitTime EXCEPT ![g] = 0]
          /\ stable' = [stable EXCEPT ![g] = FALSE]
          /\ pc' = [pc EXCEPT ![g] = "wait_check"]
          /\ UNCHANGED errs
       \/ /\ "set" \in faults
          /\ errs' = [errs EXCEPT ![g] = Append(errs[g], <<idx[g], "set">>)]
          /\ pc' = [pc EXCEPT ![g] = "acquire"]
          /\ UNCHANGED <<waitTime, stable>>
    /\ readback' = [readback EXCEPT ![g] = "n/a"]
    /\ UNCHANGED <<faults, prog, linkLost, timedOut, params, laser, runner, stopFlag, flagWriter, running, temps,
                   idx, summary, returned, setAt, interrupted>>
    /\ UNCHANGED <<rinVars, rangeVars, wlVars, mVars, pmVars, pkVars, cmVars, lgVars, sfVars, gmVars, rtVars, plVars, lwVars, scVars>>

\* `while wait_time < max_wait_time and not stable and not self._stop`.
WaitContinuesNoStop(g) == waitTime[g] < MaxWaitPolls /\ ~stable[g]
WaitContinuesShort(g) == waitTime[g] + 1 < MaxWaitPolls /\ ~stable[g] /\ ~stopFlag
WaitContinues(g) == waitTime[g] < MaxWaitPolls /\ ~stable[g] /\ ~stopFlag

\* One evaluation of the wait loop's condition.
WaitCheck(g) ==
    /\ pc[g] = "wait_check"
    /\ pc' = [pc EXCEPT ![g] = IF WaitContinues(g) THEN "wait_poll" ELSE "after_wait"]
    /\ UNCHANGED <<faults, prog, linkLost, timedOut, readback, params, laser, runner, stopFlag, flagWriter, running, temps,
                   idx, waitTime, stable, summary, errs, returned, setAt, interrupted>>
    /\ UNCHANGED <<rinVars, rangeVars, wlVars, mVars, pmVars, pkVars, cmVars, lgVars, sfVars, gmVars, rtVars, plVars, lwVars, scVars>>

PollNoneRaises(g, r) ==
    /\ readback' = [readback EXCEPT ![g] = r]
    /\ IF r = "none"
       THEN /\ errs' = [errs EXCEPT ![g] = Append(errs[g], <<idx[g], "set">>)]
            /\ pc' = [pc EXCEPT ![g] = "acquire"]
            /\ UNCHANGED <<stable, waitTime>>
       ELSE /\ IF r = "near"
               THEN /\ stable' = [stable EXCEPT ![g] = TRUE]
                    /\ UNCHANGED waitTime
               ELSE /\ waitTime' = [waitTime EXCEPT ![g] = waitTime[g] + 1]
                    /\ UNCHANGED stable
            /\ pc' = [pc EXCEPT ![g] = "wait_check"]
            /\ UNCHANGED errs
\* One poll: the readback is within the threshold (stable), or it is not, or
\* it is None; in the last two cases the poll sleeps one check interval.
Poll(g, r) ==
    /\ readback' = [readback EXCEPT ![g] = r]
    /\ IF r = "near"
       THEN /\ stable' = [stable EXCEPT ![g] = TRUE]
            /\ UNCHANGED waitTime
       ELSE /\ waitTime' = [waitTime EXCEPT ![g] = waitTime[g] + 1]
            /\ UNCHANGED stable
    /\ pc' = [pc EXCEPT ![g] = "wait_check"]
    /\ UNCHANGED errs

\* One pass through the body of the wait loop.
WaitPoll(g) ==
    /\ pc[g] = "wait_poll"
    /\ \E r \in {"none", "near", "far"} : Poll(g, r)
    /\ UNCHANGED <<faults, prog, linkLost, timedOut, params, laser, runner, stopFlag, flagWriter, running, temps,
                   idx, summary, returned, setAt, interrupted>>
    /\ UNCHANGED <<rinVars, rangeVars, wlVars, mVars, pmVars, pkVars, cmVars, lgVars, sfVars, gmVars, rtVars, plVars, lwVars, scVars>>

\* After the wait: `if not stable and not self._stop:` logs the timeout
\* warning (a warning, not an error line; timedOut remembers it for the rest of
\* the iteration), then the loop goes on to measure, timeout or not.  wait_time
\* and stable are dead from here on.
AfterWaitSkipsOnTimeout(timeout) == IF timeout THEN "loop" ELSE "acquire"
AfterWaitGoesTo(timeout) == "acquire"

AfterWait(g) ==
    /\ pc[g] = "after_wait"
    /\ waitTime' = [waitTime EXCEPT ![g] = 0]
    /\ stable' = [stable EXCEPT ![g] = FALSE]
    /\ pc' = [pc EXCEPT ![g] = AfterWaitGoesTo(~stable[g] /\ ~stopFlag)]
    /\ timedOut' = [timedOut EXCEPT ![g] = ~stable[g] /\ ~stopFlag]
    /\ readback' = [readback EXCEPT ![g] = "n/a"]
    /\ UNCHANGED <<faults, prog, linkLost, params, laser, runner, stopFlag, flagWriter, running, temps,
                   idx, summary, errs, returned, setAt, interrupted>>
    /\ UNCHANGED <<rinVars, rangeVars, wlVars, mVars, pmVars, pkVars, cmVars, lgVars, sfVars, gmVars, rtVars, plVars, lwVars, scVars>>

\* osa.sweep_and_fetch() / sa.measure_linewidth_kHz() / pm.read_power() is
\* called: the acquisition is in flight on the instrument.
AcquireStart(g) ==
    /\ pc[g] = "acquire"
    /\ pc' = [pc EXCEPT ![g] = "acquiring"]
    /\ UNCHANGED <<faults, prog, linkLost, timedOut, readback, params, laser, runner, stopFlag, flagWriter, running, temps,
                   idx, waitTime, stable, summary, errs, returned, setAt, interrupted>>
    /\ UNCHANGED <<rinVars, rangeVars, wlVars, mVars, pmVars, pkVars, cmVars, lgVars, sfVars, gmVars, rtVars, plVars, lwVars, scVars>>

\* The instrument connection drops (cable, power, LAN): from here on every
\* write and query on the VISA session raises.  Nothing in the scripts opens
\* the session again during a run.
LinkDrop ==
    /\ "link" \in faults
    /\ runner
    /\ ~linkLost
    /\ linkLost' = TRUE
    /\ UNCHANGED <<faults, prog, params, laser, runner, stopFlag, flagWriter, running, pc,
                   temps, idx, waitTime, stable, summary, errs, returned, setAt, interrupted,
                   timedOut, readback>>
    /\ UNCHANGED <<rinVars, rangeVars, wlVars, mVars, pmVars, pkVars, cmVars, lgVars, sfVars, gmVars, rtVars, plVars, lwVars, scVars>>

\* What the acquisition call can do.  CT_W / CT_P: return a value or raise.
\* CT_L: measure_linewidth_kHz returns a value, or, when the hardware reading
\* and the trace fallback both fail, logs on its own and returns NaN; it does
\* not raise.
AcquireOutcomes ==
    IF linkLost THEN (IF prog = "L" THEN {"nan"} ELSE {"raise"})
    ELSE IF "acq" \notin faults THEN {"val"}
    ELSE IF prog = "L" THEN {"val", "nan"} ELSE {"val", "raise"}

\* The acquisition ends.  A raise is logged by the loop, which continues with
\* the next setpoint; a returned value goes on to _append_summary.
AcquireDone(g) ==
    /\ pc[g] = "acquiring"
    /\ \E o \in AcquireOutcomes :
          IF o = "raise"
          THEN /\ errs' = [errs EXCEPT ![g] = Append(errs[g], <<idx[g], "acq">>)]
               /\ pc' = [pc EXCEPT ![g] = "loop"]
               /\ UNCHANGED returned
          ELSE /\ returned' = [returned EXCEPT ![g] = Append(returned[g], <<idx[g], o>>)]
               /\ pc' = [pc EXCEPT ![g] = "append"]
               /\ UNCHANGED errs
    /\ UNCHANGED <<faults, prog, linkLost, timedOut, readback, params, laser, runner, stopFlag, flagWriter, running, temps,
                   idx, waitTime, stable, summary, setAt, interrupted>>
    /\ UNCHANGED <<rinVars, rangeVars, wlVars, mVars, pmVars, pkVars, cmVars, lgVars, sfVars, gmVars, rtVars, plVars, lwVars, scVars>>

\* TestRunner._append_summary: the header goes first into a file that does not
\* exist yet, then the row.
_append_summary_lost(file, row) == file
_append_summary_reheader(file, row) == file \o <<HeaderRow, row>>
_append_summary(file, row) ==
    (IF file = <<>> THEN <<HeaderRow>> ELSE file) \o <<row>>

\* The row of the step is appended and the loop goes on.
AppendRow(g) ==
    /\ pc[g] = "append"
    /\ LET r == Last(returned[g])
       IN  summary' = [summary EXCEPT ![g] =
                          _append_summary(summary[g], DataRow(r[1], temps[g][r[1]], r[2]))]
    /\ pc' = [pc EXCEPT ![g] = "loop"]
    /\ UNCHANGED <<faults, prog, linkLost, timedOut, readback, params, laser, runner, stopFlag, flagWriter, running, temps,
                   idx, waitTime, stable, errs, returned, setAt, interrupted>>
    /\ UNCHANGED <<rinVars, rangeVars, wlVars, mVars, pmVars, pkVars, cmVars, lgVars, sfVars, gmVars, rtVars, plVars, lwVars, scVars>>

\* run_groupN returns and its locals are gone; the thread's finally re-enables
\* the start button and clears groupN_running.  The summary file stays.
Finish(g) ==
    /\ pc[g] = "finish"
    /\ running' = [running EXCEPT ![g] = FALSE]
    /\ pc' = [pc EXCEPT ![g] = "idle"]
    /\ temps' = [temps EXCEPT ![g] = <<>>]
    /\ idx' = [idx EXCEPT ![g] = 0]
    /\ errs' = [errs EXCEPT ![g] = <<>>]
    /\ setAt' = [setAt EXCEPT ![g] = -1]
    /\ interrupted' = [interrupted EXCEPT ![g] = {}]
    /\ UNCHANGED readback
    /\ timedOut' = [timedOut EXCEPT ![g] = FALSE]
    /\ UNCHANGED <<faults, prog, linkLost, params, laser, runner, stopFlag, flagWriter, waitTime, stable,
                   summary, returned>>
    /\ UNCHANGED <<rinVars, rangeVars, wlVars, mVars, pmVars, pkVars, cmVars, lgVars, sfVars, gmVars, rtVars, plVars, lwVars, scVars>>

\* One step of group g's worker thread.
Worker(g) ==
    \/ RunEnter(g)
    \/ LoopTop(g)
    \/ SetPoint(g)
    \/ WaitCheck(g)
    \/ WaitPoll(g)
    \/ AfterWait(g)
    \/ AcquireStart(g)
    \/ AcquireDone(g)
    \/ AppendRow(g)
    \/ Finish(g)

-----------------------------------------------------------------------------
(* Specifications of the sweeps *)

\* The parts of the state the sweep specifications leave alone.
RinIdle ==
    /\ rinPc = "idle"
    /\ rinSeg = 0
    /\ rinFiles = 0
    /\ raOpen = FALSE
    /\ rinStop = FALSE
    /\ runningTask = "none"
    /\ rinEnded = "none"

RangeIdle ==
    /\ rIn = <<0, 0, 0, 0, 0>>
    /\ rPhase = "in"
    /\ rOut = <<>>
    /\ rBuilt = <<>>
    /\ rTemps = <<>>
    /\ rFine = <<0, 0>>
    /\ rWarn = 0

\* Wavelengths are integers in units of 0.0005 nm.
WlNone == 0 - 1

WlIdle ==
    /\ wlPc = "idle"
    /\ wlTarget = 0
    /\ wlStop = FALSE
    /\ wlSame = 0
    /\ wlLast = WlNone
    /\ wlElapsed = 0
    /\ wlRead = WlNone
    /\ wlResult = "none"

MIdle ==
    /\ mPc = "idle"
    /\ mIdx = 0
    /\ mStop = FALSE
    /\ mPolls = 0
    /\ mSwept = FALSE
    /\ mTraces = <<>>
    /\ mLog = {}

\* The GUI with both groups, short sweeps.
Init == InitRunner({"L", "W"}) /\ faults = AllFaults /\ RinIdle /\ RangeIdle /\ WlIdle /\ MIdle /\ PmIdle /\ PkIdle /\ CmIdle /\ LgIdle /\ SfIdle /\ GmIdle /\ RtIdle /\ PlIdle /\ LwIdle /\ ScIdle

Next ==
    \E g \in Groups :
        \/ StartGroup(g, GuiParams(g))
        \/ StopGroup(g)
        \/ Worker(g)

Spec == Init /\ [][Next]_vars

\* One group, one five-step sweep, never more than one run at a time.
InitSweep == InitRunner({"L", "W"}) /\ faults = AllFaults /\ RinIdle /\ RangeIdle /\ WlIdle /\ MIdle /\ PmIdle /\ PkIdle /\ CmIdle /\ LgIdle /\ SfIdle /\ GmIdle /\ RtIdle /\ PlIdle /\ LwIdle /\ ScIdle

NextSweep ==
    \/ StartGroup(1, Sweep5Params)
    \/ StopGroup(1)
    \/ Worker(1)

SpecSweep == InitSweep /\ [][NextSweep]_vars

\* One group of CT_W, the sweep 36 -> 15 by 1, instruments that do not fail
\* (the wait may still time out, the readback may be missing, the user may stop).
InitFull == InitRunner({"W"}) /\ faults = {} /\ RinIdle /\ RangeIdle /\ WlIdle /\ MIdle /\ PmIdle /\ PkIdle /\ CmIdle /\ LgIdle /\ SfIdle /\ GmIdle /\ RtIdle /\ PlIdle /\ LwIdle /\ ScIdle

NextFull ==
    \/ StartGroup(1, Sweep22Params)
    \/ StopGroup(1)
    \/ Worker(1)

SpecFull == InitFull /\ [][NextFull]_vars

\* A five-point CT_W sweep of group 1 during which the instrument connection
\* can drop.
InitLink == InitRunner({"W"}) /\ faults = {"link"} /\ RinIdle /\ RangeIdle /\ WlIdle /\ MIdle /\ PmIdle /\ PkIdle /\ CmIdle /\ LgIdle /\ SfIdle /\ GmIdle /\ RtIdle /\ PlIdle /\ LwIdle /\ ScIdle

NextLink ==
    \/ StartGroup(1, Sweep5Params)
    \/ StopGroup(1)
    \/ Worker(1)
    \/ LinkDrop

SpecLink == InitLink /\ [][NextLink]_vars

\* The same run with its worker thread scheduled: every sleep of the loop is
\* finite and the thread is never suspended for good.
SpecFullFair == SpecFull /\ WF_vars(Worker(1))

-----------------------------------------------------------------------------
(* RinGUI.start_rin / TestRunner.run_rin (zhongzi/Rin_FSV3004.py) *)

\* len(measurement_params) in run_rin.
NumSegments == 6

\* RinGUI.start_rin: refused while running_task is set; otherwise a fresh
\* RinAnalyzer is made and the worker thread is started.  The model follows
\* one worker thread at a time.
StartRin ==
    /\ runningTask = "none"
    /\ rinPc = "idle"
    /\ rinPc' = "spawned"
    /\ rinSeg' = 0
    /\ rinFiles' = 0
    /\ rinEnded' = "none"
    /\ raOpen' = FALSE
    /\ UNCHANGED <<rinStop, runningTask>>
    /\ UNCHANGED <<runnerVars, rangeVars, wlVars, mVars, pmVars, pkVars, cmVars, lgVars, sfVars, gmVars, rtVars, plVars, lwVars, scVars>>

\* RinGUI.stop_running (the stop button, enabled by the worker thread), or the
\* analyzer's own stop window setting ra.stop_flag.
StopRunning ==
    /\ runningTask = "rin"
    /\ rinStop' = TRUE
    /\ UNCHANGED <<rinPc, rinSeg, rinFiles, raOpen, runningTask, rinEnded>>
    /\ UNCHANGED <<runnerVars, rangeVars, wlVars, mVars, pmVars, pkVars, cmVars, lgVars, sfVars, gmVars, rtVars, plVars, lwVars, scVars>>

\* The first lines of the thread's target: running_task = "rin", the buttons,
\* runner._stop = False; then run_rin's folder clean-up, which catches its own
\* exceptions.
RinThreadBegin ==
    /\ rinPc = "spawned"
    /\ runningTask' = "rin"
    /\ rinStop' = FALSE
    /\ rinPc' = "connect"
    /\ UNCHANGED <<rinSeg, rinFiles, raOpen, rinEnded>>
    /\ UNCHANGED <<runnerVars, rangeVars, wlVars, mVars, pmVars, pkVars, cmVars, lgVars, sfVars, gmVars, rtVars, plVars, lwVars, scVars>>

\* `if ra.connect():` opens the VISA session and returns True, or logs and
\* returns False.
RinConnect ==
    /\ rinPc = "connect"
    /\ \/ /\ raOpen' = TRUE
          /\ rinPc' = "configure"
       \/ /\ raOpen' = FALSE
          /\ rinPc' = "check"
    /\ UNCHANGED <<rinSeg, rinFiles, rinStop, runningTask, rinEnded>>
    /\ UNCHANGED <<runnerVars, rangeVars, wlVars, mVars, pmVars, pkVars, cmVars, lgVars, sfVars, gmVars, rtVars, plVars, lwVars, scVars>>

\* ra.configure_instrument(): five writes outside any try of its own.  A write
\* that raises is caught by run_rin's outer `except Exception`, which only
\* logs: run_rin returns without reaching ra.close().
RinConfigure ==
    /\ rinPc = "configure"
    /\ \/ /\ rinPc' = "segments"
          /\ UNCHANGED rinEnded
       \/ /\ rinPc' = "thread_end"
          /\ rinEnded' = "failed"
    /\ UNCHANGED <<rinSeg, rinFiles, raOpen, rinStop, runningTask>>
    /\ UNCHANGED <<runnerVars, rangeVars, wlVars, mVars, pmVars, pkVars, cmVars, lgVars, sfVars, gmVars, rtVars, plVars, lwVars, scVars>>

\* One iteration of `for ... in measurement_params`: break on the stop flag,
\* else measure_segment, which returns True or catches its failure and
\* returns False.  After the loop comes ra.close().
RinSegment ==
    /\ rinPc = "segments"
    /\ IF rinSeg = NumSegments \/ rinStop
       THEN /\ rinPc' = "close"
            /\ UNCHANGED <<rinSeg, rinFiles>>
       ELSE /\ rinSeg' = rinSeg + 1
            /\ \E ok \in BOOLEAN : rinFiles' = IF ok THEN rinFiles + 1 ELSE rinFiles
            /\ UNCHANGED rinPc
    /\ UNCHANGED <<raOpen, rinStop, runningTask, rinEnded>>
    /\ UNCHANGED <<runnerVars, rangeVars, wlVars, mVars, pmVars, pkVars, cmVars, lgVars, sfVars, gmVars, rtVars, plVars, lwVars, scVars>>

\* RinAnalyzer.close() after the loop.
RinClose ==
    /\ rinPc = "close"
    /\ raOpen' = FALSE
    /\ rinPc' = "check"
    /\ UNCHANGED <<rinSeg, rinFiles, rinStop, runningTask, rinEnded>>
    /\ UNCHANGED <<runnerVars, rangeVars, wlVars, mVars, pmVars, pkVars, cmVars, lgVars, sfVars, gmVars, rtVars, plVars, lwVars, scVars>>

\* The rest of run_rin: return when stopped; else process_files and
\* visualize_data, whose exceptions the outer except logs.
RinAfter ==
    /\ rinPc = "check"
    /\ IF rinStop
       THEN rinEnded' = "cancelled"
       ELSE rinEnded' \in {"failed", "completed"}
    /\ rinPc' = "thread_end"
    /\ UNCHANGED <<rinSeg, rinFiles, raOpen, rinStop, runningTask>>
    /\ UNCHANGED <<runnerVars, rangeVars, wlVars, mVars, pmVars, pkVars, cmVars, lgVars, sfVars, gmVars, rtVars, plVars, lwVars, scVars>>

\* The target's finally: buttons back, running_task = None; the thread ends.
RinThreadEnd ==
    /\ rinPc = "thread_end"
    /\ runningTask' = "none"
    /\ rinPc' = "idle"
    /\ UNCHANGED <<rinSeg, rinFiles, raOpen, rinStop, rinEnded>>
    /\ UNCHANGED <<runnerVars, rangeVars, wlVars, mVars, pmVars, pkVars, cmVars, lgVars, sfVars, gmVars, rtVars, plVars, lwVars, scVars>>

RunnerIdle == InitRunner({"W"}) /\ faults = AllFaults

InitRin == RinIdle /\ RunnerIdle /\ RangeIdle /\ WlIdle /\ MIdle /\ PmIdle /\ PkIdle /\ CmIdle /\ LgIdle /\ SfIdle /\ GmIdle /\ RtIdle /\ PlIdle /\ LwIdle /\ ScIdle

NextRin ==
    \/ StartRin
    \/ StopRunning
    \/ RinThreadBegin
    \/ RinConnect
    \/ RinConfigure
    \/ RinSegment
    \/ RinClose
    \/ RinAfter
    \/ RinThreadEnd

SpecRin == InitRin /\ [][NextRin]_vars

\* C8: whenever the worker of a session has ended, by completion, cancellation
\* or failure, the instrument handle of the session has been closed.
C8_HandlesClosedAtEnd ==
    (rinPc = "idle" /\ rinEnded # "none") => ~raOpen

-----------------------------------------------------------------------------
(* The setpoint generators on their own *)

\* The largest whole-degree endpoint of the enumerated inputs.
MaxDeg == 3

\* <<start, stop, step, fine_center, fine_range>>: whole-degree sweeps in both
\* directions with a fine range inside, at the edge of, or partly outside the
\* sweep.
DegInputs ==
    {p \in {<<a * Deg, b * Deg, c * Deg, fc, fr>> :
               a \in 0..MaxDeg, b \in 0..MaxDeg, c \in {1, 2},
               fc \in {Deg, 15 * FineStep}, fr \in {5 * FineStep, Deg}} :
        p[1] # p[2]}

\* The sweeps the specification names: 10 -> 0 by 3, 36 -> 15 by 1 with the
\* fine range 25 +- 2, and the bounds [15, 36] with the fine range 25 +- 20.
NamedInputs ==
    {<<10 * Deg, 0, 3 * Deg, 25 * Deg, Deg>>,
     <<15 * Deg, 36 * Deg, Deg, 25 * Deg, 20 * Deg>>,
     <<36 * Deg, 15 * Deg, Deg, 25 * Deg, 2 * Deg>>,
     <<36 * Deg, 15 * Deg, Deg, 25 * Deg, 20 * Deg>>}

\* Steps below the 1e-6 resolution of round(t, 6): 0 -> 2e-6 by 4e-7 and
\* 0 -> 6e-7 by 3e-7, and the same downwards.
SmallInputs ==
    {<<0, 6, 3, 0, 0>>, <<0, 20, 4, 0, 0>>, <<6, 0, 3, 0, 0>>, <<20, 0, 4, 0, 0>>}

RangeInputs == DegInputs \cup NamedInputs \cup SmallInputs

InitRange ==
    /\ rIn \in RangeInputs
    /\ rPhase = "in"
    /\ rOut = <<>>
    /\ rBuilt = <<>>
    /\ rTemps = <<>>
    /\ rFine = <<0, 0>>
    /\ rWarn = 0
    /\ RinIdle
    /\ RunnerIdle
    /\ WlIdle
    /\ MIdle
    /\ PmIdle
    /\ PkIdle
    /\ CmIdle
    /\ LgIdle
    /\ SfIdle
    /\ GmIdle
    /\ RtIdle
    /\ PlIdle
    /\ LwIdle
    /\ ScIdle

\* A call of TestRunner._float_range(start, stop, step).
FloatRangeCall ==
    /\ rPhase = "in"
    /\ rOut' = _float_range(rIn[1], rIn[2], rIn[3])
    /\ rPhase' = "ranged"
    /\ UNCHANGED <<rIn, rBuilt, rTemps, rFine, rWarn>>
    /\ UNCHANGED <<runnerVars, rinVars, wlVars, mVars, pmVars, pkVars, cmVars, lgVars, sfVars, gmVars, rtVars, plVars, lwVars, scVars>>

\* The list construction of CT_L's run_group1: _build_temps_with_fine is
\* called, then temps is rebuilt from _float_range.
BuildTempsCall ==
    /\ rPhase = "ranged"
    /\ rBuilt' = _build_temps_with_fine(rIn[1], rIn[2], rIn[3], rIn[4], rIn[5])
    /\ rTemps' = RunGroup1Temps(rIn[1], rIn[2], rIn[3], rIn[4], rIn[5])
    /\ rFine' = RunFineBounds(rIn[1], rIn[2], rIn[4], rIn[5])
    /\ rWarn' = (IF RunFineWarned(rIn[1], rIn[2], rIn[4], rIn[5]) THEN 1 ELSE 0)
                 + (IF BuildFineWarned(rIn[1], rIn[2], rIn[4], rIn[5]) THEN 1 ELSE 0)
    /\ rPhase' = "built"
    /\ UNCHANGED <<rIn, rOut>>
    /\ UNCHANGED <<runnerVars, rinVars, wlVars, mVars, pmVars, pkVars, cmVars, lgVars, sfVars, gmVars, rtVars, plVars, lwVars, scVars>>

NextRange ==
    \/ FloatRangeCall
    \/ BuildTempsCall

SpecRange == InitRange /\ [][NextRange]_vars

\* No two entries of xs are closer than 1e-6.
Deduplicated(xs) ==
    \A i \in 1..Len(xs) : \A j \in 1..Len(xs) :
        i # j => Abs(xs[i] - xs[j]) >= Micro

\* xs moves strictly in one direction.
Monotonic(xs) ==
    \/ \A i \in 1..(Len(xs) - 1) : xs[i] < xs[i + 1]
    \/ \A i \in 1..(Len(xs) - 1) : xs[i] > xs[i + 1]

\* C9: the list of setpoints a sweep iterates is finite, free of duplicates
\* and monotonic, descending sweeps and fine sub-ranges included (sweeps with
\* a step of at least the fine step 0.1).
C9_SetpointsDedupMonotonic ==
    (rPhase = "built" /\ Abs(rIn[3]) >= FineStep)
        => Deduplicated(rTemps) /\ Monotonic(rTemps)

\* C11: a fine range that reaches beyond both ends of the sweep (such as
\* 25 +- 20 on the sweep bounds [15, 36]) is clamped to the sweep bounds, the
\* setpoints swept stay within them and reach both, and a warning is logged.
C11_FineRangeClamped ==
    (/\ rPhase = "built"
     /\ rIn[4] - rIn[5] < Min2(rIn[1], rIn[2])
     /\ rIn[4] + rIn[5] > Max2(rIn[1], rIn[2]))
        => /\ rFine = <<Min2(rIn[1], rIn[2]), Max2(rIn[1], rIn[2])>>
           /\ rWarn >= 1
           /\ \A k \in 1..Len(rTemps) :
                 Min2(rIn[1], rIn[2]) <= rTemps[k] /\ rTemps[k] <= Max2(rIn[1], rIn[2])
           /\ \E k \in 1..Len(rTemps) : rTemps[k] = Min2(rIn[1], rIn[2])
           /\ \E k \in 1..Len(rTemps) : rTemps[k] = Max2(rIn[1], rIn[2])

\* C11 witness: the specification's case, bounds [15, 36] and fine range
\* 25 +- 20, has been built with the fine bounds <<15, 36>>.
C11_Witness ==
    /\ rPhase = "built"
    /\ rIn = <<36 * Deg, 15 * Deg, Deg, 25 * Deg, 20 * Deg>>
    /\ rFine = <<15 * Deg, 36 * Deg>>
    /\ Len(rTemps) = 211

\* C10: for a nonzero step the sequence of _float_range is deduplicated to
\* within 1e-6 and its last point is not beyond stop by more than the step.
C10_RangeNoOvershootNoDup ==
    rPhase # "in" =>
        /\ Deduplicated(rOut)
        /\ rOut # <<>> =>
              IF rIn[1] < rIn[2]
              THEN Last(rOut) - rIn[2] <= Abs(rIn[3])
              ELSE rIn[2] - Last(rOut) <= Abs(rIn[3])

-----------------------------------------------------------------------------
(* Properties of the sweeps *)

\* The steps of the data rows of a summary file, in file order.
RECURSIVE RowSteps(_)
RowSteps(file) ==
    IF file = <<>> THEN <<>>
    ELSE IF file[1].kind = "row" THEN <<file[1].i>> \o RowSteps(Rest(file))
    ELSE RowSteps(Rest(file))

\* The steps of the acquisitions that returned, in order.
ReturnedSteps(g) == [k \in 1..Len(returned[g]) |-> returned[g][k][1]]


\* C1: a step that was in flight when the stop flag was set gets no summary row.
C1_NoRowForInterruptedStep ==
    \A g \in Groups : \A k \in 1..Len(summary[g]) :
        summary[g][k].kind = "row" => summary[g][k].i \notin interrupted[g]

\* C2: once the stop flag has been set in the middle of a sweep, the only acquisition
\* that can still be started or in flight is the one of the iteration that was
\* under way when the flag was set; no later setpoint is acquired.
C2_NoAcquisitionAfterStop ==
    \A g \in Groups :
        (setAt[g] >= 1 /\ pc[g] \in {"acquire", "acquiring"}) => idx[g] = setAt[g]

FailedAcq(g) ==
    {errs[g][k][1] : k \in {j \in 1..Len(errs[g]) : errs[g][j][2] = "acq"}}
    \cup {returned[g][k][1] : k \in {j \in 1..Len(returned[g]) : returned[g][j][2] = "nan"}}

\* C4: a five-step sweep that ran to its end, in which the acquisition of
\* step 3 failed and nothing else did, has the rows of steps 1, 2, 4, 5 and
\* exactly one error line.
C4_FailedStepSkipped ==
    (/\ pc[1] = "finish"
     /\ Len(temps[1]) = 5
     /\ idx[1] = 5
     /\ FailedAcq(1) = {3}
     /\ \A k \in 1..Len(errs[1]) : errs[1][k][2] = "acq")
        => /\ RowSteps(summary[1]) = <<1, 2, 4, 5>>
           /\ Len(errs[1]) = 1

C13_HeaderOnceAppendOnly ==
    /\ [](\A g \in Groups :
             summary[g] # <<>> =>
                {k \in 1..Len(summary[g]) : summary[g][k].kind = "hdr"} = {1})
    /\ [][\A g \in Groups :
             \/ summary'[g] = summary[g]
             \/ summary'[g] = <<>>
             \/ /\ Len(summary'[g]) = Len(IF summary[g] = <<>> THEN <<HeaderRow>> ELSE summary[g]) + 1
                /\ SubSeq(summary'[g], 1, Len(summary'[g]) - 1)
                      = (IF summary[g] = <<>> THEN <<HeaderRow>> ELSE summary[g])
                /\ Last(summary'[g]).kind = "row"]_vars

\* C13 witness: a file with the header and two data rows.
C13_Witness ==
    \E g \in Groups :
        /\ Len(summary[g]) = 3
        /\ summary[g][2].kind = "row"
        /\ summary[g][3].kind = "row"

C6_OneAcquisitionAtATime ==
    ~(pc[1] = "acquiring" /\ pc[2] = "acquiring")

\* C7: the stop flag is only ever written by the stop request (after its
\* initialisation by the constructor).
C7_OnlyStopWritesFlag ==
    flagWriter \in {"stop", "init"}

------------------------------------------------------------------------------
(* SingleFrequencyGUI._wait_wavelength_stable (zhongzi/SingleFrequency.py)   *)

\* tol = 0.001 nm, consec_ok = 3.
WlTol == 2
ConsecOk == 3

\* max_wait / interval (300 s / 0.2 s in the code), scaled down.
MaxWlPolls == 6

\* What label_Wavelength can show, and the wavelengths _run restores.
WlReadings == 0..3
WlTargets == {0, 3}

\* _run's finally: lc.set_wavelength_nm(wl0), then the wait is entered.  The
\* stop flag is already set when the run was stopped by the user and clear when
\* it ended through an exception.
WaitWlBegin ==
    /\ wlPc \in {"idle", "done"}
    /\ wlTarget' \in WlTargets
    /\ wlStop' \in BOOLEAN
    /\ wlPc' = "loop"
    /\ wlSame' = 0
    /\ wlLast' = WlNone
    /\ wlElapsed' = 0
    /\ wlRead' = WlNone
    /\ wlResult' = "none"
    /\ UNCHANGED <<runnerVars, rinVars, rangeVars, mVars, pmVars, pkVars, cmVars, lgVars, sfVars, gmVars, rtVars, plVars, lwVars, scVars>>

\* SingleFrequencyGUI.stop(): stop_flag.set().
WlStopClick ==
    /\ wlPc = "loop"
    /\ ~wlStop
    /\ wlStop' = TRUE
    /\ UNCHANGED <<wlPc, wlTarget, wlSame, wlLast, wlElapsed, wlRead, wlResult>>
    /\ UNCHANGED <<runnerVars, rinVars, rangeVars, mVars, pmVars, pkVars, cmVars, lgVars, sfVars, gmVars, rtVars, plVars, lwVars, scVars>>

\* `abs(wl - last_val) < tol` with last_val not None.
WlSteady(wl, last) == last # WlNone /\ Abs(wl - last) < WlTol

\* One iteration of the while loop: the stop flag raises KeyboardInterrupt; a
\* None reading sleeps and retries; a reading close to the previous one counts,
\* and the consec_ok-th in a row returns True; any other reading restarts the
\* count.  Every iteration that does not return sleeps one interval.
WaitWlIter ==
    /\ wlPc = "loop"
    /\ wlElapsed < MaxWlPolls
    /\ IF wlStop
       THEN /\ wlPc' = "done"
            /\ wlResult' = "interrupt"
            /\ UNCHANGED <<wlSame, wlLast, wlElapsed, wlRead>>
       ELSE \E wl \in WlReadings \cup {WlNone} :
               /\ wlRead' = wl
               /\ IF wl = WlNone
                  THEN /\ wlElapsed' = wlElapsed + 1
                       /\ UNCHANGED <<wlPc, wlSame, wlLast, wlResult>>
                  ELSE IF WlSteady(wl, wlLast) /\ wlSame + 1 >= ConsecOk
                  THEN /\ wlSame' = wlSame + 1
                       /\ wlPc' = "done"
                       /\ wlResult' = "stable"
                       /\ UNCHANGED <<wlLast, wlElapsed>>
                  ELSE /\ wlSame' = IF WlSteady(wl, wlLast) THEN wlSame + 1 ELSE 0
                       /\ wlLast' = wl
                       /\ wlElapsed' = wlElapsed + 1
                       /\ UNCHANGED <<wlPc, wlResult>>
    /\ UNCHANGED <<wlTarget, wlStop>>
    /\ UNCHANGED <<runnerVars, rinVars, rangeVars, mVars, pmVars, pkVars, cmVars, lgVars, sfVars, gmVars, rtVars, plVars, lwVars, scVars>>

\* The while condition fails: "超时未稳定" is logged and False returned.
WaitWlTimeout ==
    /\ wlPc = "loop"
    /\ wlElapsed >= MaxWlPolls
    /\ wlPc' = "done"
    /\ wlResult' = "timeout"
    /\ UNCHANGED <<wlTarget, wlStop, wlSame, wlLast, wlElapsed, wlRead>>
    /\ UNCHANGED <<runnerVars, rinVars, rangeVars, mVars, pmVars, pkVars, cmVars, lgVars, sfVars, gmVars, rtVars, plVars, lwVars, scVars>>

InitWl == WlIdle /\ RinIdle /\ RunnerIdle /\ RangeIdle /\ MIdle /\ PmIdle /\ PkIdle /\ CmIdle /\ LgIdle /\ SfIdle /\ GmIdle /\ RtIdle /\ PlIdle /\ LwIdle /\ ScIdle

NextWl ==
    \/ WaitWlBegin
    \/ WlStopClick
    \/ WaitWlIter
    \/ WaitWlTimeout

SpecWl == InitWl /\ [][NextWl]_vars

\* C15: the stabilization wait declares the actuator stabilized as soon as a
\* polled readback is within the tolerance of the target: no wait is still
\* polling after having read a wavelength with |wl - target| <= tol.
C15_StabilizedAsSoonAsWithinTolerance ==
    ~(/\ wlPc = "loop"
      /\ wlRead # WlNone
      /\ Abs(wlRead - wlTarget) <= WlTol)

------------------------------------------------------------------------------
(* The two stabilization waits side by side                                 *)

\* A CT_W sweep of group 1 without instrument failures, and a wavelength wait
\* of SingleFrequency.
InitPolls == InitRunner({"W"}) /\ faults = {} /\ RinIdle /\ RangeIdle /\ WlIdle /\ MIdle /\ PmIdle /\ PkIdle /\ CmIdle /\ LgIdle /\ SfIdle /\ GmIdle /\ RtIdle /\ PlIdle /\ LwIdle /\ ScIdle

NextPolls ==
    \/ StartGroup(1, Sweep5Params)
    \/ StopGroup(1)
    \/ Worker(1)
    \/ WaitWlBegin
    \/ WlStopClick
    \/ WaitWlIter
    \/ WaitWlTimeout

SpecPolls == InitPolls /\ [][NextPolls]_vars

\* C16: a poll whose readback is None is a no-op: the wait sleeps one interval
\* and goes back to its loop condition; nothing is logged as a failure, the
\* stability state is as before, and the sweep stays in the same step.
C16_NoneReadbackIsNoOp ==
    /\ [][\A g \in Groups :
            (pc[g] = "wait_poll" /\ pc'[g] # "wait_poll" /\ readback'[g] = "none") =>
               /\ pc'[g] = "wait_check"
               /\ waitTime'[g] = waitTime[g] + 1
               /\ stable'[g] = stable[g]
               /\ errs'[g] = errs[g]
               /\ idx'[g] = idx[g]
               /\ running'[g]]_vars
    /\ [][(wlPc = "loop" /\ wlRead' = WlNone /\ wlElapsed' # wlElapsed) =>
               /\ wlPc' = "loop"
               /\ wlElapsed' = wlElapsed + 1
               /\ wlSame' = wlSame
               /\ wlLast' = wlLast
               /\ wlResult' = "none"]_vars

C16_Witness ==
    /\ pc[1] = "wait_poll"
    /\ readback[1] = "none"
    /\ waitTime[1] = 1
    /\ wlPc = "loop"
    /\ wlRead = WlNone
    /\ wlElapsed = 3
    /\ wlSame = 1

\* C17: a stabilization wait that times out is logged as a warning and the
\* step goes on: no error line is written for it, the acquisition is made, and
\* unless the acquisition itself raises the step ends with its row in the
\* summary file; the run is still in its loop.
C17_TimeoutProceeds ==
    \A g \in Groups :
        timedOut[g] =>
            /\ running[g]
            /\ pc[g] \in {"loop", "acquire", "acquiring", "append"}
            /\ \A k \in 1..Len(errs[g]) : errs[g][k] # <<idx[g], "set">>
            /\ pc[g] = "loop" =>
                  \/ \E k \in 1..Len(errs[g]) : errs[g][k] = <<idx[g], "acq">>
                  \/ /\ \E k \in 1..Len(returned[g]) : returned[g][k][1] = idx[g]
                     /\ \E k \in 1..Len(summary[g]) :
                           summary[g][k].kind = "row" /\ summary[g][k].i = idx[g]

C17_Witness ==
    \E g \in Groups :
        /\ timedOut[g]
        /\ pc[g] = "loop"
        /\ ~stopFlag
        /\ \E k \in 1..Len(summary[g]) :
              summary[g][k].kind = "row" /\ summary[g][k].i = idx[g]

\* C18: a step whose setpoint could not be set (the failure is logged) is
\* skipped: the summary file never holds a row for a step with a set-failure
\* line.
C18_SetFailureSkipsStep ==
    \A g \in Groups : \A k \in 1..Len(errs[g]) :
        errs[g][k][2] = "set" =>
            \A j \in 1..Len(summary[g]) :
                summary[g][j].kind = "row" => summary[g][j].i # errs[g][k][1]

\* C19: once an acquisition has failed because the instrument connection is
\* lost, the sweep attempts no further step: the loop never begins an iteration
\* after the one whose acquisition raised.
C19_ConnectionLossEndsSweep ==
    \A g \in Groups : \A k \in 1..Len(errs[g]) :
        (linkLost /\ errs[g][k][2] = "acq") => idx[g] <= errs[g][k][1]

------------------------------------------------------------------------------
(* RinWorkflow.run_measurement and Rin_4051.single_sweep_fetch               *)
(* (zhongzi/Rin_4051.py)                                                      *)

\* len(DEFAULT_SEGMENTS).
Segments4051 == 6

\* wait_time / 0.05: the sleeps the *OPC? loop can make before it gives up.
MaxOpcPolls == 2

\* run_measurement up to its for loop: stop_flag and the collected data are
\* reset, the analyzer is connected.
MStart ==
    /\ mPc \in {"idle", "end"}
    /\ mPc' = "seg"
    /\ mIdx' = 0
    /\ mStop' = FALSE
    /\ mPolls' = 0
    /\ mSwept' = FALSE
    /\ mTraces' = <<>>
    /\ mLog' = {}
    /\ UNCHANGED <<runnerVars, rinVars, rangeVars, wlVars, pmVars, pkVars, cmVars, lgVars, sfVars, gmVars, rtVars, plVars, lwVars, scVars>>

\* RinWorkflow.request_stop().
MRequestStop ==
    /\ mPc \in {"seg", "opc", "fetch"}
    /\ ~mStop
    /\ mStop' = TRUE
    /\ UNCHANGED <<mPc, mIdx, mPolls, mSwept, mTraces, mLog>>
    /\ UNCHANGED <<runnerVars, rinVars, rangeVars, wlVars, pmVars, pkVars, cmVars, lgVars, sfVars, gmVars, rtVars, plVars, lwVars, scVars>>

\* The top of `for idx, seg in enumerate(self.segments)`: the list is
\* exhausted or stop_flag breaks the loop (run_measurement returns); otherwise
\* the segment is configured, which fails (logged, continue) or succeeds, and
\* then single_sweep_fetch triggers the sweep with :INIT.
MSegTop ==
    /\ mPc = "seg"
    /\ IF mIdx = Segments4051 \/ mStop
       THEN /\ mPc' = "end"
            /\ UNCHANGED <<mIdx, mPolls, mSwept, mLog>>
       ELSE /\ mIdx' = mIdx + 1
            /\ \/ /\ mPc' = "opc"
                  /\ mPolls' = 0
                  /\ mSwept' = FALSE
                  /\ UNCHANGED mLog
               \/ /\ mLog' = mLog \cup {mIdx + 1}
                  /\ UNCHANGED <<mPc, mPolls, mSwept>>
    /\ UNCHANGED <<mStop, mTraces>>
    /\ UNCHANGED <<runnerVars, rinVars, rangeVars, wlVars, pmVars, pkVars, cmVars, lgVars, sfVars, gmVars, rtVars, plVars, lwVars, scVars>>

\* One pass of `while time.time() - start < wait_time`: *OPC? answers "1" and
\* the loop breaks, or it does not (or raises, which is passed over) and the
\* loop sleeps 0.05 s.
MOpcPoll ==
    /\ mPc = "opc"
    /\ mPolls < MaxOpcPolls
    /\ \/ /\ mSwept' = TRUE
          /\ mPc' = "fetch"
          /\ UNCHANGED mPolls
       \/ /\ mPolls' = mPolls + 1
          /\ UNCHANGED <<mSwept, mPc>>
    /\ UNCHANGED <<mIdx, mStop, mTraces, mLog>>
    /\ UNCHANGED <<runnerVars, rinVars, rangeVars, wlVars, pmVars, pkVars, cmVars, lgVars, sfVars, gmVars, rtVars, plVars, lwVars, scVars>>

\* wait_time is over and the sweep has not reported completion: the loop ends
\* and single_sweep_fetch goes on to read the trace.
MOpcTimeout ==
    /\ mPc = "opc"
    /\ mPolls >= MaxOpcPolls
    /\ mPc' = "fetch"
    /\ UNCHANGED <<mIdx, mStop, mPolls, mSwept, mTraces, mLog>>
    /\ UNCHANGED <<runnerVars, rinVars, rangeVars, wlVars, pmVars, pkVars, cmVars, lgVars, sfVars, gmVars, rtVars, plVars, lwVars, scVars>>

\* :TRAC:DATA? TRACE1 is read (binary, else ASCII).  It returns what the trace
\* memory holds, which fetch_and_save_trace writes to the segment's files and
\* run_measurement appends to freqs_all / values_all; or it raises, which
\* run_measurement logs before going on to the next segment.
MFetch ==
    /\ mPc = "fetch"
    /\ \/ /\ mTraces' = Append(mTraces, <<mIdx, IF mSwept THEN "complete" ELSE "partial">>)
          /\ UNCHANGED mLog
       \/ /\ mLog' = mLog \cup {mIdx}
          /\ UNCHANGED mTraces
    /\ mPc' = "seg"
    /\ UNCHANGED <<mIdx, mStop, mPolls, mSwept>>
    /\ UNCHANGED <<runnerVars, rinVars, rangeVars, wlVars, pmVars, pkVars, cmVars, lgVars, sfVars, gmVars, rtVars, plVars, lwVars, scVars>>

InitMeasure == MIdle /\ RinIdle /\ RunnerIdle /\ RangeIdle /\ WlIdle /\ PmIdle /\ PkIdle /\ CmIdle /\ LgIdle /\ SfIdle /\ GmIdle /\ RtIdle /\ PlIdle /\ LwIdle /\ ScIdle

NextMeasure ==
    \/ MStart
    \/ MRequestStop
    \/ MSegTop
    \/ MOpcPoll
    \/ MOpcTimeout
    \/ MFetch

SpecMeasure == InitMeasure /\ [][NextMeasure]_vars

\* C20: an acquisition that does not complete in time leaves no trace behind:
\* every trace that was saved and collected comes from a sweep that reported
\* completion within the wait.
C20_NoTraceFromUnfinishedSweep ==
    \A k \in 1..Len(mTraces) : mTraces[k][2] = "complete"

------------------------------------------------------------------------------
(* PowerMeterController.read_power (qijian/CT_P.py)                          *)

\* candidates = ["READ?", "MEAS:POW?", "POW:READ?", "READ:POWER?", "READ:POW?"].
NumCandidates == 5

\* The answers of the meter to one query, by what the parsing makes of them:
\* "finite" (a number such as 1.5E-3), "nan" and "inf" (the texts NAN, INF,
\* which float() accepts), "empty", "junk" (text float() rejects), "error"
\* (the query raises, a VISA timeout for instance).
PmAnswers == {"error", "nan", "finite", "inf", "empty", "junk"}

\* float(token): the texts it accepts.
ParsesAsFloat(a) == a \in {"nan", "finite", "inf"}

\* _try_query_float(cmd), given the answer: the float, or None.
_try_query_float(a) == IF ParsesAsFloat(a) THEN a ELSE "None"

\* The candidates in the order of the list, the first whose answer is not None
\* returned; then the raw read; then RuntimeError.
read_power(resp, raw) ==
    LET hits == {i \in 1..Len(resp) : _try_query_float(resp[i]) # "None"}
    IN  IF hits # {}
        THEN LET i == CHOOSE h \in hits : \A k \in hits : h <= k
             IN  <<"return", i, _try_query_float(resp[i])>>
        ELSE IF ParsesAsFloat(raw) THEN <<"return", 0, raw>>
        ELSE <<"RuntimeError">>

InitPm ==
    /\ pmResp \in [1..NumCandidates -> PmAnswers]
    /\ pmRaw \in {"error", "finite", "empty", "junk"}
    /\ pmPhase = "in"
    /\ pmOut = <<>>
    /\ RunnerIdle /\ RinIdle /\ RangeIdle /\ WlIdle /\ MIdle
    /\ PkIdle
    /\ CmIdle
    /\ LgIdle
    /\ SfIdle
    /\ GmIdle
    /\ RtIdle
    /\ PlIdle
    /\ LwIdle
    /\ ScIdle

\* A call of read_power() on a connected meter.
ReadPowerCall ==
    /\ pmPhase = "in"
    /\ pmOut' = read_power(pmResp, pmRaw)
    /\ pmPhase' = "out"
    /\ UNCHANGED <<pmResp, pmRaw>>
    /\ UNCHANGED <<runnerVars, rinVars, rangeVars, wlVars, mVars, pkVars, cmVars, lgVars, sfVars, gmVars, rtVars, plVars, lwVars, scVars>>

NextPm == ReadPowerCall

SpecPm == InitPm /\ [][NextPm]_vars

\* C21: read_power returns the answer of the first candidate command, in list
\* order, that parses as a finite float, and raises when no candidate gives
\* one.
C21_FirstFiniteOrError ==
    pmPhase = "out" =>
        LET fin == {i \in 1..NumCandidates : pmResp[i] = "finite"}
        IN  IF fin = {} THEN pmOut = <<"RuntimeError">>
            ELSE pmOut = <<"return", CHOOSE h \in fin : \A k \in fin : h <= k, "finite">>

------------------------------------------------------------------------------
(* PeakDetector.find (zhongzi/SingleFrequency.py).  Powers are integers in   *)
(* units of 0.01 dB; means are compared exactly (n * y - sum against n * t). *)

\* thresh_db = 1.0.
ThreshDb == 100

\* The longest trace tried.
MaxTrace == 5

\* y_dbm[i], y_dbm[a:b] as the set of its indices (0-based, as in the code).
PyAt(y, i) == y[i + 1]
PySlice(y, a, b) == {i \in 0..(Len(y) - 1) : a <= i /\ i < b}

RECURSIVE SumAt(_, _)
SumAt(y, S) ==
    IF S = {} THEN 0
    ELSE LET i == CHOOSE k \in S : TRUE IN PyAt(y, i) + SumAt(y, S \ {i})

\* edge_points = int(len * 0.1), at least 10; edge_data is the first and the
\* last edge_points samples (a short trace enters twice).
EdgePoints(y) == Max2(10, Len(y) \div 10)
EdgeSum(y) ==
    SumAt(y, PySlice(y, 0, EdgePoints(y)))
        + SumAt(y, PySlice(y, Len(y) - EdgePoints(y), Len(y)))
EdgeCount(y) ==
    Cardinality(PySlice(y, 0, EdgePoints(y)))
        + Cardinality(PySlice(y, Len(y) - EdgePoints(y), Len(y)))

\* narrow_guard = max(1, int(g / 2)).
NarrowGuard(g) == Max2(1, g \div 2)

\* is_local_max: y above every sample within narrow_guard on both sides.
IsLocalMax(y, i, g) ==
    \A j \in 1..NarrowGuard(g) :
        PyAt(y, i) > PyAt(y, i - j) /\ PyAt(y, i) > PyAt(y, i + j)

\* left_nb = y_dbm[max(0, i-g-2):i], right_nb = y_dbm[i+1:min(len, i+g+3)].
LeftNb(y, i, g) == PySlice(y, Max2(0, i - g - 2), i)
RightNb(y, i, g) == PySlice(y, i + 1, Min2(Len(y), i + g + 3))

\* v - mean >= d/10, with the mean given by its sum s over n samples; an empty
\* neighbourhood takes the edge noise as its mean.
AboveMeanStrict(y, v, S, d10) ==
    IF S = {} THEN 10 * (EdgeCount(y) * v - EdgeSum(y)) > d10 * EdgeCount(y)
    ELSE 10 * (Cardinality(S) * v - SumAt(y, S)) > d10 * Cardinality(S)
AboveMean(y, v, S, d10) ==
    IF S = {} THEN 10 * (EdgeCount(y) * v - EdgeSum(y)) >= d10 * EdgeCount(y)
    ELSE 10 * (Cardinality(S) * v - SumAt(y, S)) >= d10 * Cardinality(S)
AboveNoise(y, v, d10) ==
    10 * (EdgeCount(y) * v - EdgeSum(y)) >= d10 * EdgeCount(y)

\* y - local_noise >= thresh_db, local_noise = min(left_mean, right_mean, noise).
AboveLocalNoise(y, i, g, t) ==
    \/ AboveMean(y, PyAt(y, i), LeftNb(y, i, g), 10 * t)
    \/ AboveMean(y, PyAt(y, i), RightNb(y, i, g), 10 * t)
    \/ AboveNoise(y, PyAt(y, i), 10 * t)

\* y - max(left_mean, right_mean) >= d/10.
Prominent(y, i, g, d10) ==
    /\ AboveMean(y, PyAt(y, i), LeftNb(y, i, g), d10)
    /\ AboveMean(y, PyAt(y, i), RightNb(y, i, g), d10)

\* The acceptance test of the loop: the prominence need only reach 0.8 prom_db.
IsPeak(y, i, g, t, p) ==
    /\ IsLocalMax(y, i, g)
    /\ AboveLocalNoise(y, i, g, t)
    /\ Prominent(y, i, g, 8 * p)

\* range(g, len(y_dbm) - g).
Candidates(y, g) == {i \in 0..(Len(y) - 1) : g <= i /\ i < Len(y) - g}

SortedSeq(S) ==
    [k \in 1..Cardinality(S) |-> CHOOSE i \in S : Cardinality({j \in S : j < i}) = k - 1]

\* PeakDetector.find: nothing for a trace shorter than 2 * guard + 1, else the
\* accepted samples in index order.
findWrongGuard(y, g, t, p) ==
    IF Len(y) < g + 1 THEN <<>>
    ELSE SortedSeq({i \in 0..(Len(y) - 1) : AboveLocalNoise(y, i, g, t)})
find(y, g, t, p) ==
    IF Len(y) < 2 * g + 1 THEN <<>>
    ELSE SortedSeq({i \in Candidates(y, g) : IsPeak(y, i, g, t, p)})

PkLevels == {0, 80, 99, 100}

InitPk ==
    /\ pkY \in UNION {[1..n -> PkLevels] : n \in 0..MaxTrace}
    /\ pkG \in {1, 2}
    /\ pkProm \in {100, 125}
    /\ pkPhase = "in"
    /\ pkOut = <<>>
    /\ pkWin = <<>>
    /\ RunnerIdle /\ RinIdle /\ RangeIdle /\ WlIdle /\ MIdle /\ PmIdle
    /\ CmIdle
    /\ LgIdle
    /\ SfIdle
    /\ GmIdle
    /\ RtIdle
    /\ PlIdle
    /\ LwIdle
    /\ ScIdle

\* A call of find(x, y_dbm) on a detector with thresh_db = 1.0.
FindCall ==
    /\ pkPhase = "in"
    /\ pkOut' = find(pkY, pkG, ThreshDb, pkProm)
    /\ pkWin' = IF Len(pkY) < 2 * pkG + 1 THEN <<>>
                ELSE [i \in Candidates(pkY, pkG) |-> <<LeftNb(pkY, i, pkG), RightNb(pkY, i, pkG)>>]
    /\ pkPhase' = "out"
    /\ UNCHANGED <<pkY, pkG, pkProm>>
    /\ UNCHANGED <<runnerVars, rinVars, rangeVars, wlVars, mVars, pmVars, cmVars, lgVars, sfVars, gmVars, rtVars, plVars, lwVars, scVars>>

NextPk == FindCall

SpecPk == InitPk /\ [][NextPk]_vars

\* C22: every peak returned stands at least thresh_db above its local noise
\* floor and at least prom_db above the larger of its two neighbourhood means.
C22_PeaksMeetThresholdAndProminence ==
    pkPhase = "out" =>
        \A k \in 1..Len(pkOut) :
            /\ AboveLocalNoise(pkY, pkOut[k], pkG, ThreshDb)
            /\ Prominent(pkY, pkOut[k], pkG, 10 * pkProm)

\* A flat trace (level 0) with one sample standing out, at index i.
SingleSpike(y, i) ==
    /\ PyAt(y, i) > 0
    /\ \A j \in 0..(Len(y) - 1) : j # i => PyAt(y, j) = 0

\* C23: in a flat trace, a single sample (inside the guard margins) that is
\* exactly thresh_db above the floor and at least 0.8 prom_db above its
\* neighbourhood is returned as the one peak; a single sample 0.01 dB short of
\* thresh_db above the floor is not returned.
C23_ThresholdBoundary ==
    pkPhase = "out" =>
        \A i \in Candidates(pkY, pkG) :
            SingleSpike(pkY, i) =>
                /\ (PyAt(pkY, i) = ThreshDb /\ 10 * PyAt(pkY, i) >= 8 * pkProm)
                      => pkOut = <<i>>
                /\ PyAt(pkY, i) = ThreshDb - 1 => pkOut = <<>>

C23_Witness ==
    /\ pkPhase = "out"
    /\ pkY = <<0, 0, 100, 0, 0>>
    /\ pkG = 2
    /\ pkProm = 125
    /\ pkOut = <<2>>

\* C24: for every sample the loop examines, the neighbourhood means are taken
\* over the guard + 2 samples that lie just outside the reduced guard radius
\* max(1, guard / 2) on either side (cut at the ends of the trace).
C24_NeighbourhoodOutsideGuard ==
    \A i \in DOMAIN pkWin :
        /\ pkWin[i][1] = PySlice(pkY, i - NarrowGuard(pkG) - (pkG + 2), i - NarrowGuard(pkG))
        /\ pkWin[i][2] = PySlice(pkY, i + NarrowGuard(pkG) + 1,
                                 i + NarrowGuard(pkG) + 1 + (pkG + 2))

\* C25: find on a trace shorter than 2 * guard + 1 samples returns no peaks.
C25_ShortTraceNoPeaks ==
    (pkPhase = "out" /\ Len(pkY) < 2 * pkG + 1) => pkOut = <<>>

C25_Witness ==
    /\ pkPhase = "out"
    /\ pkG = 2
    /\ pkY = <<0, 0, 100, 0>>
    /\ pkOut = <<>>

------------------------------------------------------------------------------
(* SingleFrequencyGUI._continuous_coarse_monitor_until_stable                *)
(* (zhongzi/SingleFrequency.py).  Frequencies are integers in units of      *)
(* 0.25 MHz.                                                                 *)

\* peak_tolerance = 1.0e6 Hz.
PeakTolerance == 4

\* The traces one call reads before its time is up.
MaxMonPolls == 3

\* Where the detector can report a peak: 0, 0.25, ..., 1.5 MHz.
MonFreqs == 0..6

\* round(q) of Python 3 for q = n / d: to the nearest integer, a tie to the
\* even one.
PyRound(n, d) ==
    LET lo == n \div d
        r2 == 2 * (n % d)
    IN  IF r2 < d THEN lo
        ELSE IF r2 > d THEN lo + 1
        ELSE IF lo % 2 = 0 THEN lo ELSE lo + 1

\* approx_freq = round(freq / peak_tolerance) * peak_tolerance.
ApproxFreqExact(freq) == freq
ApproxFreq(freq) == PyRound(freq, PeakTolerance) * PeakTolerance

\* `for peak in peaks`: the peaks whose approx_freq is not in detected_peaks
\* are collected, each one entering detected_peaks at once.  Gives
\* <<new_peaks, detected_peaks>>.
RECURSIVE NewPeaks(_, _)
NewPeaks(peaks, detected) ==
    IF peaks = <<>> THEN <<<<>>, detected>>
    ELSE IF ApproxFreq(peaks[1]) \in detected
         THEN NewPeaks(Rest(peaks), detected)
         ELSE LET r == NewPeaks(Rest(peaks), detected \cup {ApproxFreq(peaks[1])})
              IN  <<<<peaks[1]>> \o r[1], r[2]>>

\* The call begins: detected_peaks = set(), found = False, continuous sweep on.
MonStart ==
    /\ cmPc \in {"idle", "done"}
    /\ cmPc' = "loop"
    /\ cmPolls' = 0
    /\ cmDetected' = {}
    /\ cmSaved' = <<>>
    /\ cmFound' = FALSE
    /\ UNCHANGED <<runnerVars, rinVars, rangeVars, wlVars, mVars, pmVars, pkVars, lgVars, sfVars, gmVars, rtVars, plVars, lwVars, scVars>>

\* One poll of the loop: the trace is read, find returns its peaks in ascending
\* frequency, the new ones are saved and shown.
MonPoll ==
    /\ cmPc = "loop"
    /\ cmPolls < MaxMonPolls
    /\ \E P \in SUBSET MonFreqs :
          /\ Cardinality(P) <= 2
          /\ LET r == NewPeaks(SortedSeq(P), cmDetected)
             IN  /\ cmDetected' = r[2]
                 /\ cmSaved' = cmSaved \o r[1]
                 /\ cmFound' = (cmFound \/ r[1] # <<>>)
    /\ cmPolls' = cmPolls + 1
    /\ UNCHANGED cmPc
    /\ UNCHANGED <<runnerVars, rinVars, rangeVars, wlVars, mVars, pmVars, pkVars, lgVars, sfVars, gmVars, rtVars, plVars, lwVars, scVars>>

\* The loop ends (delay_s or max_wait is over, the wavelength is stable, or the
\* stop flag raises) and the finally switches the continuous sweep off.
MonEnd ==
    /\ cmPc = "loop"
    /\ cmPc' = "done"
    /\ UNCHANGED <<cmPolls, cmDetected, cmSaved, cmFound>>
    /\ UNCHANGED <<runnerVars, rinVars, rangeVars, wlVars, mVars, pmVars, pkVars, lgVars, sfVars, gmVars, rtVars, plVars, lwVars, scVars>>

InitMon == CmIdle /\ RunnerIdle /\ RinIdle /\ RangeIdle /\ WlIdle /\ MIdle /\ PmIdle /\ PkIdle /\ LgIdle /\ SfIdle /\ GmIdle /\ RtIdle /\ PlIdle /\ LwIdle /\ ScIdle

NextMon ==
    \/ MonStart
    \/ MonPoll
    \/ MonEnd

SpecMon == InitMon /\ [][NextMon]_vars

\* C26: within one monitoring call no two saved peaks have the same frequency
\* rounded to the nearest 1 MHz, and the set of seen peaks holds exactly the
\* rounded frequencies of the saved ones.
C26_SeenPeakNotSavedAgain ==
    /\ \A k, l \in 1..Len(cmSaved) :
          k # l => PyRound(cmSaved[k], PeakTolerance) # PyRound(cmSaved[l], PeakTolerance)
    /\ cmDetected = {PyRound(cmSaved[k], PeakTolerance) * PeakTolerance : k \in 1..Len(cmSaved)}

C26_Witness ==
    /\ cmPolls = 3
    /\ cmSaved = <<3, 6>>
    /\ cmDetected = {4, 8}

------------------------------------------------------------------------------
(* Log and status messages: CT_W_GUI.log (qijian/CT_W.py), LineWidthGUI.log  *)
(* (zhongzi/LineWidth.py), MainApplication's status queue (MainGUI_multi.py) *)

\* The messages one producer sends.
MaxMsgs == 3

\* CT_W_GUI.log, called on the worker thread through TestRunner's log_func:
\* the line is inserted into log_box before log() returns.
LogDirect(w) ==
    /\ lgGui = "direct"
    /\ lgSent[w] < MaxMsgs
    /\ lgSent' = [lgSent EXCEPT ![w] = lgSent[w] + 1]
    /\ lgBox' = Append(lgBox, <<w, lgSent[w] + 1>>)
    /\ UNCHANGED <<lgGui, lgPending>>
    /\ UNCHANGED <<runnerVars, rinVars, rangeVars, wlVars, mVars, pmVars, pkVars, cmVars, sfVars, gmVars, rtVars, plVars, lwVars, scVars>>

\* LineWidthGUI.log: root.after(0, ...) files a timer event due at once; Tk
\* keeps events due at the same time in the order they were created.
LogAfter(w) ==
    /\ lgGui = "after"
    /\ lgSent[w] < MaxMsgs
    /\ lgSent' = [lgSent EXCEPT ![w] = lgSent[w] + 1]
    /\ lgPending' = Append(lgPending, <<w, lgSent[w] + 1>>)
    /\ UNCHANGED <<lgGui, lgBox>>
    /\ UNCHANGED <<runnerVars, rinVars, rangeVars, wlVars, mVars, pmVars, pkVars, cmVars, sfVars, gmVars, rtVars, plVars, lwVars, scVars>>

\* run_module in a child process: queue.put(...) on the shared
\* multiprocessing.Queue.
QueuePut(w) ==
    /\ lgGui = "queue"
    /\ lgSent[w] < MaxMsgs
    /\ lgSent' = [lgSent EXCEPT ![w] = lgSent[w] + 1]
    /\ lgPending' = Append(lgPending, <<w, lgSent[w] + 1>>)
    /\ UNCHANGED <<lgGui, lgBox>>
    /\ UNCHANGED <<runnerVars, rinVars, rangeVars, wlVars, mVars, pmVars, pkVars, cmVars, sfVars, gmVars, rtVars, plVars, lwVars, scVars>>

\* Which pending message is taken next: the oldest (Tk's event list and
\* Queue.get_nowait are both first in, first out).
NextEventNewest(q) == Len(q)
NextEvent(q) == 1

\* The Tk main loop runs the next due event: _safe_log_append inserts the line.
MainLoopRun ==
    /\ lgGui = "after"
    /\ lgPending # <<>>
    /\ LET k == NextEvent(lgPending)
       IN  /\ lgBox' = Append(lgBox, lgPending[k])
           /\ lgPending' = SubSeq(lgPending, 1, k - 1) \o SubSeq(lgPending, k + 1, Len(lgPending))
    /\ UNCHANGED <<lgGui, lgSent>>
    /\ UNCHANGED <<runnerVars, rinVars, rangeVars, wlVars, mVars, pmVars, pkVars, cmVars, sfVars, gmVars, rtVars, plVars, lwVars, scVars>>

\* monitor_queue: queue.get_nowait() and handle_message(message), one message
\* per pass, in a single thread.
MonitorGet ==
    /\ lgGui = "queue"
    /\ lgPending # <<>>
    /\ LET k == NextEvent(lgPending)
       IN  /\ lgBox' = Append(lgBox, lgPending[k])
           /\ lgPending' = SubSeq(lgPending, 1, k - 1) \o SubSeq(lgPending, k + 1, Len(lgPending))
    /\ UNCHANGED <<lgGui, lgSent>>
    /\ UNCHANGED <<runnerVars, rinVars, rangeVars, wlVars, mVars, pmVars, pkVars, cmVars, sfVars, gmVars, rtVars, plVars, lwVars, scVars>>

InitLog ==
    /\ lgGui \in {"direct", "after", "queue"}
    /\ lgSent = [w \in Producers |-> 0]
    /\ lgPending = <<>>
    /\ lgBox = <<>>
    /\ RunnerIdle /\ RinIdle /\ RangeIdle /\ WlIdle /\ MIdle /\ PmIdle /\ PkIdle /\ CmIdle
    /\ SfIdle
    /\ GmIdle
    /\ RtIdle
    /\ PlIdle
    /\ LwIdle
    /\ ScIdle

NextLog ==
    \/ \E w \in Producers : LogDirect(w)
    \/ \E w \in Producers : LogAfter(w)
    \/ \E w \in Producers : QueuePut(w)
    \/ MainLoopRun
    \/ MonitorGet

SpecLog == InitLog /\ [][NextLog]_vars

\* C27: the UI shows the messages of each producer in the order in which that
\* producer sent them, each at most once.
C27_MessagesFifo ==
    \A k, l \in 1..Len(lgBox) :
        (k < l /\ lgBox[k][1] = lgBox[l][1]) => lgBox[k][2] < lgBox[l][2]

C27_Witness ==
    /\ lgGui = "after"
    /\ lgBox = <<<<1, 1>>, <<2, 1>>, <<1, 2>>, <<2, 2>>>>
    /\ lgPending = <<<<1, 3>>>>

\* C28: a stop request is never lost: once _stop is set it is not cleared
\* while a sweep that was started is still running (whether its thread is
\* still on its way into the loop or in the loop).
C28_StopNeverLost ==
    [][(stopFlag /\ ~stopFlag') => \A g \in Groups : ~running[g]]_vars

\* ---------------------------------------------------------------------------
\* SingleFrequencyGUI._run and its control thread
\* ---------------------------------------------------------------------------

OtherThanSf == <<runnerVars, rinVars, rangeVars, wlVars, mVars, pmVars, pkVars, cmVars, lgVars, gmVars, rtVars, plVars, lwVars, scVars>>

\* The worker that started control thread r has ended.
WorkerEnded(r) == r < sfRun \/ (r = sfRun /\ sfPc = "ended")

\* start(): refused while the worker is alive; clears stop_flag and starts a
\* new _run thread.
SfStart ==
    /\ sfPc \in {"idle", "ended"}
    /\ sfRun < MaxRuns
    /\ sfRun' = sfRun + 1
    /\ sfStopFlag' = FALSE
    /\ sfPc' = "connect"
    /\ sfInit' = {}
    /\ sfRestored' = {}
    /\ sfClosed' = FALSE
    /\ sfWhy' = "none"
    /\ UNCHANGED <<sfPauseFlag, sfCtl, sfSets>>
    /\ UNCHANGED OtherThanSf

\* stop(): stop_flag.set().
SfStopClick ==
    /\ ~sfStopFlag
    /\ sfStopFlag' = TRUE
    /\ UNCHANGED <<sfPc, sfRun, sfPauseFlag, sfInit, sfRestored, sfClosed, sfWhy, sfCtl, sfSets>>
    /\ UNCHANGED OtherThanSf

\* _toggle_pause(): sets pause_flag when it is clear, clears it when set.
SfTogglePause ==
    /\ sfPauseFlag' = ~sfPauseFlag
    /\ UNCHANGED <<sfPc, sfRun, sfStopFlag, sfInit, sfRestored, sfClosed, sfWhy, sfCtl, sfSets>>
    /\ UNCHANGED OtherThanSf

\* The head of _run's try block.  "early": start_or_connect or sa.open raises
\* before wl0 is bound, so the restore block fails on its first line and only
\* sa.close() runs.  "setup": an analyzer command raises after the initial
\* readings, before the control thread exists.  "ok": the control thread is
\* started and the main loop begins.
SfConnect ==
    /\ sfPc = "connect"
    /\ \E outcome \in {"ok", "early", "setup"}, readings \in SUBSET {"wl", "temp", "cur"} :
         CASE outcome = "early" ->
                /\ sfPc' = "close"
                /\ sfWhy' = "error"
                /\ UNCHANGED <<sfInit, sfCtl>>
           [] outcome = "setup" ->
                /\ sfPc' = "restore_wl"
                /\ sfWhy' = "error"
                /\ sfInit' = readings
                /\ UNCHANGED sfCtl
           [] outcome = "ok" ->
                /\ sfPc' = "loop"
                /\ sfInit' = readings
                /\ sfCtl' = [sfCtl EXCEPT ![sfRun] = "check"]
                /\ UNCHANGED sfWhy
    /\ UNCHANGED <<sfRun, sfStopFlag, sfPauseFlag, sfRestored, sfClosed, sfSets>>
    /\ UNCHANGED OtherThanSf

\* The top of the main loop: `while not stop_flag`, then the pause check.
SfLoopTop ==
    /\ sfPc = "loop"
    /\ IF sfStopFlag
       THEN sfPc' = "restore_wl" /\ sfWhy' = "stop"
       ELSE /\ sfPc' = IF sfPauseFlag THEN "paused" ELSE "sweep"
            /\ UNCHANGED sfWhy
    /\ UNCHANGED <<sfRun, sfStopFlag, sfPauseFlag, sfInit, sfRestored, sfClosed, sfCtl, sfSets>>
    /\ UNCHANGED OtherThanSf

\* _pause_point(): returns when pause_flag is clear; raises KeyboardInterrupt
\* when stop_flag is set while it is paused; blocks otherwise.
SfPausePoint ==
    /\ sfPc = "paused"
    /\ ~sfPauseFlag \/ sfStopFlag
    /\ IF ~sfPauseFlag
       THEN sfPc' = "sweep" /\ UNCHANGED sfWhy
       ELSE sfPc' = "restore_wl" /\ sfWhy' = "stop"
    /\ UNCHANGED <<sfRun, sfStopFlag, sfPauseFlag, sfInit, sfRestored, sfClosed, sfCtl, sfSets>>
    /\ UNCHANGED OtherThanSf

\* One pass of the loop body: the analyzer commands either all succeed or one
\* of them raises, which `except Exception` reports before the restore block.
SfSweep ==
    /\ sfPc = "sweep"
    /\ \E raised \in BOOLEAN :
         IF raised
         THEN sfPc' = "restore_wl" /\ sfWhy' = "error"
         ELSE sfPc' = "loop" /\ UNCHANGED sfWhy
    /\ UNCHANGED <<sfRun, sfStopFlag, sfPauseFlag, sfInit, sfRestored, sfClosed, sfCtl, sfSets>>
    /\ UNCHANGED OtherThanSf

\* Restore block, wavelength: skipped when wl0 is None, otherwise
\* set_wavelength_nm(wl0) followed by _wait_wavelength_stable.
SfRestoreWl ==
    /\ sfPc = "restore_wl"
    /\ IF "wl" \in sfInit
       THEN /\ sfRestored' = sfRestored \cup {"wl"}
            /\ sfPc' = "wait_wl"
       ELSE /\ sfPc' = "restore_cur"
            /\ UNCHANGED sfRestored
    /\ UNCHANGED <<sfRun, sfStopFlag, sfPauseFlag, sfInit, sfClosed, sfWhy, sfCtl, sfSets>>
    /\ UNCHANGED OtherThanSf

\* _wait_wavelength_stable inside the restore block (blocked while paused
\* with no stop request).  It raises KeyboardInterrupt when stop_flag is set,
\* which `except Exception` does not catch, so only the inner finally
\* (sa.close) is left; otherwise it returns True or False and the block goes
\* on with the current.
SfWaitWl ==
    /\ sfPc = "wait_wl"
    /\ ~sfPauseFlag \/ sfStopFlag
    /\ sfPc' = IF sfStopFlag THEN "close" ELSE "restore_cur"
    /\ UNCHANGED <<sfRun, sfStopFlag, sfPauseFlag, sfInit, sfRestored, sfClosed, sfWhy, sfCtl, sfSets>>
    /\ UNCHANGED OtherThanSf

\* Restore block, current: set_current_mA(cur0) unless cur0 is None.
SfRestoreCur ==
    /\ sfPc = "restore_cur"
    /\ sfRestored' = IF "cur" \in sfInit THEN sfRestored \cup {"cur"} ELSE sfRestored
    /\ sfPc' = "restore_temp"
    /\ UNCHANGED <<sfRun, sfStopFlag, sfPauseFlag, sfInit, sfClosed, sfWhy, sfCtl, sfSets>>
    /\ UNCHANGED OtherThanSf

\* Restore block, temperature: set_temperature_c(temp0) unless temp0 is None.
SfRestoreTemp ==
    /\ sfPc = "restore_temp"
    /\ sfRestored' = IF "temp" \in sfInit THEN sfRestored \cup {"temp"} ELSE sfRestored
    /\ sfPc' = "close"
    /\ UNCHANGED <<sfRun, sfStopFlag, sfPauseFlag, sfInit, sfClosed, sfWhy, sfCtl, sfSets>>
    /\ UNCHANGED OtherThanSf

\* The inner finally: sa.close(), then _run ends.
SfClose ==
    /\ sfPc = "close"
    /\ sfClosed' = TRUE
    /\ sfPc' = "ended"
    /\ UNCHANGED <<sfRun, sfStopFlag, sfPauseFlag, sfInit, sfRestored, sfWhy, sfCtl, sfSets>>
    /\ UNCHANGED OtherThanSf

\* temp_cur_control_thread, loop condition and timers: the thread returns when
\* stop_flag is set (its loop condition reads nothing else), idles while
\* paused, and otherwise has a setpoint due.
CtlCheck(r) ==
    /\ sfCtl[r] = "check"
    /\ sfStopFlag \/ ~sfPauseFlag
    /\ sfCtl' = [sfCtl EXCEPT ![r] = IF sfStopFlag THEN "done" ELSE "send"]
    /\ UNCHANGED <<sfPc, sfRun, sfStopFlag, sfPauseFlag, sfInit, sfRestored, sfClosed, sfWhy, sfSets>>
    /\ UNCHANGED OtherThanSf

\* temp_cur_control_thread: lc.set_temperature_c / lc.set_current_mA.
CtlSend(r) ==
    /\ sfCtl[r] = "send"
    /\ sfSets[r] < MaxSets
    /\ sfSets' = [sfSets EXCEPT ![r] = @ + 1]
    /\ sfCtl' = [sfCtl EXCEPT ![r] = "check"]
    /\ UNCHANGED <<sfPc, sfRun, sfStopFlag, sfPauseFlag, sfInit, sfRestored, sfClosed, sfWhy>>
    /\ UNCHANGED OtherThanSf

InitSf ==
    /\ SfIdle
    /\ RunnerIdle /\ RinIdle /\ RangeIdle /\ WlIdle /\ MIdle /\ PmIdle /\ PkIdle /\ CmIdle /\ LgIdle
    /\ GmIdle
    /\ RtIdle
    /\ PlIdle
    /\ LwIdle
    /\ ScIdle

NextSf ==
    \/ SfStart
    \/ SfStopClick
    \/ SfTogglePause
    \/ SfConnect
    \/ SfLoopTop
    \/ SfPausePoint
    \/ SfSweep
    \/ SfRestoreWl
    \/ SfWaitWl
    \/ SfRestoreCur
    \/ SfRestoreTemp
    \/ SfClose
    \/ \E r \in Runs : CtlCheck(r)
    \/ \E r \in Runs : CtlSend(r)

SpecSf == InitSf /\ [][NextSf]_vars

\* C29: after a user stop the worker has set back every initial value whose
\* reading was available (wavelength, current, temperature) by the time it
\* closes the analyzer.
C29_StopRestoresInitialState ==
    (sfClosed /\ sfWhy = "stop") => sfInit \subseteq sfRestored

\* C30: a control thread sends no setpoint once the worker that started it
\* has ended.
C30_NoSetpointAfterWorkerEnd ==
    [][\A r \in Runs : sfSets'[r] # sfSets[r] => ~WorkerEnded(r)]_vars

\* ---------------------------------------------------------------------------
\* Rin_4051_GUI: starting and stopping the measurement worker
\* ---------------------------------------------------------------------------

OtherThanGm == <<runnerVars, rinVars, rangeVars, wlVars, mVars, pmVars, pkVars, cmVars, lgVars, sfVars, rtVars, plVars, lwVars, scVars>>

\* start_test(): a new Rin_4051 and a new RinWorkflow are bound to
\* self.analyzer and self.workflow first; only then the guard returns when
\* the worker thread is alive, and otherwise the worker is started.
start_test ==
    /\ gmMade < MaxMade
    /\ gmMade' = gmMade + 1
    /\ IF gmPc \in {"run", "connect", "close"}
       THEN UNCHANGED gmPc
       ELSE gmPc' = "connect"
    /\ UNCHANGED <<gmRunOn, gmOpen, gmStopReq>>
    /\ UNCHANGED OtherThanGm

\* stop_test(): self.workflow.request_stop() when a workflow exists.
stop_test ==
    /\ gmMade > 0
    /\ gmMade \notin gmStopReq
    /\ gmStopReq' = gmStopReq \cup {gmMade}
    /\ UNCHANGED <<gmMade, gmPc, gmRunOn, gmOpen>>
    /\ UNCHANGED OtherThanGm

\* _worker_measure: self.analyzer.connect(); on failure the method returns
\* through its finally block; on success self.workflow.run_measurement is
\* entered, which clears that workflow's stop flag.
WorkerConnect ==
    /\ gmPc = "connect"
    /\ \/ /\ gmOpen' = gmOpen \cup {gmMade}
          /\ gmPc' = "run"
          /\ gmRunOn' = gmMade
          /\ gmStopReq' = gmStopReq \ {gmMade}
       \/ /\ gmPc' = "close"
          /\ UNCHANGED <<gmOpen, gmRunOn, gmStopReq>>
    /\ UNCHANGED gmMade
    /\ UNCHANGED OtherThanGm

\* run_measurement on the workflow the worker entered: it returns when its
\* segments are done or when its own stop flag is set.
WorkerRunEnds ==
    /\ gmPc = "run"
    /\ gmPc' = "close"
    /\ UNCHANGED <<gmMade, gmRunOn, gmOpen, gmStopReq>>
    /\ UNCHANGED OtherThanGm

\* The finally block of _worker_measure: self.analyzer.close().
WorkerClose ==
    /\ gmPc = "close"
    /\ gmOpen' = gmOpen \ {gmMade}
    /\ gmPc' = "done"
    /\ UNCHANGED <<gmMade, gmRunOn, gmStopReq>>
    /\ UNCHANGED OtherThanGm

InitGm ==
    /\ GmIdle
    /\ RunnerIdle /\ RinIdle /\ RangeIdle /\ WlIdle /\ MIdle /\ PmIdle /\ PkIdle /\ CmIdle /\ LgIdle /\ SfIdle
    /\ RtIdle
    /\ PlIdle
    /\ LwIdle
    /\ ScIdle

NextGm ==
    \/ start_test
    \/ stop_test
    \/ WorkerConnect
    \/ WorkerRunEnds
    \/ WorkerClose

SpecGm == InitGm /\ [][NextGm]_vars

\* C31: a start_test call made while the worker is alive leaves the running
\* measurement untouched: the worker still closes the analyzer it connected,
\* so none is left open when it has ended, and stop_test still reaches the
\* workflow that is running.
C31_StartWhileRunningChangesNothing ==
    /\ gmPc = "done" => gmOpen = {}
    /\ gmPc = "run" => gmRunOn = gmMade

\* ---------------------------------------------------------------------------
\* RinGUI: start_rin, start_background, start_seedlight
\* ---------------------------------------------------------------------------

OtherThanRt == <<runnerVars, rinVars, rangeVars, wlVars, mVars, pmVars, pkVars, cmVars, lgVars, sfVars, gmVars, plVars, lwVars, scVars>>

\* start_rin / start_background / start_seedlight: rejected when
\* running_task is set; otherwise a worker thread is created and started.
\* running_task itself is written by the thread, not here.
StartTask(kind) ==
    /\ rtTask = "none"
    /\ Len(rtKind) < MaxTasks
    /\ rtKind' = Append(rtKind, kind)
    /\ rtPhase' = Append(rtPhase, "spawned")
    /\ UNCHANGED rtTask
    /\ UNCHANGED OtherThanRt

\* The first statement of target / target_bg / target_seed:
\* self.running_task = "rin" / "bg" / "seed"; the task then runs.
TaskBegin(t) ==
    /\ t <= Len(rtPhase)
    /\ rtPhase[t] = "spawned"
    /\ rtTask' = rtKind[t]
    /\ rtPhase' = [rtPhase EXCEPT ![t] = "running"]
    /\ UNCHANGED rtKind
    /\ UNCHANGED OtherThanRt

\* The finally block of the thread's target: self.running_task = None.
TaskEnd(t) ==
    /\ t <= Len(rtPhase)
    /\ rtPhase[t] = "running"
    /\ rtTask' = "none"
    /\ rtPhase' = [rtPhase EXCEPT ![t] = "ended"]
    /\ UNCHANGED rtKind
    /\ UNCHANGED OtherThanRt

InitRt ==
    /\ RtIdle
    /\ RunnerIdle /\ RinIdle /\ RangeIdle /\ WlIdle /\ MIdle /\ PmIdle /\ PkIdle /\ CmIdle /\ LgIdle /\ SfIdle /\ GmIdle
    /\ PlIdle
    /\ LwIdle
    /\ ScIdle

NextRt ==
    \/ \E kind \in {"rin", "bg", "seed"} : StartTask(kind)
    \/ \E t \in 1..MaxTasks : TaskBegin(t)
    \/ \E t \in 1..MaxTasks : TaskEnd(t)

SpecRt == InitRt /\ [][NextRt]_vars

\* C32: RinGUI never has two worker tasks that were started and have not
\* finished.
C32_OneTaskAtATime ==
    Cardinality({t \in 1..Len(rtPhase) : rtPhase[t] # "ended"}) <= 1

\* ---------------------------------------------------------------------------
\* IntegratedPlatform: toggle_module, add_tab, remove_tab, on_tab_closed,
\* select_all, deselect_all
\* ---------------------------------------------------------------------------

OtherThanPl == <<runnerVars, rinVars, rangeVars, wlVars, mVars, pmVars, pkVars, cmVars, lgVars, sfVars, gmVars, rtVars, lwVars, scVars>>

\* MODULE_GROUPS, with one module whose GUI class has a stop() method
\* (SingleFrequencyGUI) and two whose class has none (Rin_4051_GUI, CT_W_GUI).
MODULE_GROUPS ==
    [zhongzi |-> <<"SingleFrequency", "Rin_4051">>, qijian |-> <<"CT_W">>]

\* The keys of MODULE_MAP, in order.
Modules == MODULE_GROUPS.zhongzi \o MODULE_GROUPS.qijian

\* add_tab(name).  how = "ok": the instance is created and registered in
\* active_modules and name_to_tab_id.  how = "early": the GUI class or
\* notebook.add raises before the registration.  how = "late":
\* notebook.select or restore_module_params raises after it.  The except
\* clause un-checks the box in both failure cases and undoes nothing else.
add_tab(s, name, how) ==
    CASE how = "ok" ->
           [s EXCEPT !.active = @ \cup {name}, !.tabs = @ \cup {name}]
      [] how = "early" ->
           [s EXCEPT !.checked = @ \ {name}]
      [] how = "late" ->
           [s EXCEPT !.active = @ \cup {name}, !.tabs = @ \cup {name},
                     !.checked = @ \ {name}]

\* remove_tab(name): for an active module the parameters are saved,
\* gui_instance.stop() is called when the instance has a callable attribute
\* named stop, and the instance and its tab are forgotten.
remove_tab(s, name) ==
    IF name \in s.active
    THEN [s EXCEPT !.active = @ \ {name},
                   !.tabs = @ \ {name},
                   !.running = @ \ {name},
                   !.orphans = IF name \in s.running /\ name # "SingleFrequency"
                               THEN @ \cup {name} ELSE @]
    ELSE s

\* A click on the check box of a module flips its variable and calls
\* toggle_module(name).
toggle_module(name) ==
    /\ \E how \in {"ok", "early", "late"} :
         LET flipped == [pl EXCEPT !.checked = IF name \in @ THEN @ \ {name} ELSE @ \cup {name}]
         IN  pl' = IF name \in flipped.checked
                   THEN IF name \notin flipped.active
                        THEN add_tab(flipped, name, how)
                        ELSE flipped
                   ELSE IF name \in flipped.active /\ name \in flipped.tabs
                        THEN remove_tab(flipped, name)
                        ELSE flipped
    /\ UNCHANGED OtherThanPl

\* on_tab_closed(event) when the selected tab is the tab of module name:
\* remove_tab(name), then the box is un-checked.
on_tab_closed(name) ==
    /\ name \in pl.tabs
    /\ pl' = [remove_tab(pl, name) EXCEPT !.checked = @ \ {name}]
    /\ UNCHANGED OtherThanPl

\* One pass of select_all's loop: the box is checked and add_tab is called
\* for a module that is not active.
SelectOne(s, name, how) ==
    LET t == [s EXCEPT !.checked = @ \cup {name}]
    IN  IF name \notin t.active THEN add_tab(t, name, how) ELSE t

\* One pass of deselect_all's loop: the tab is forgotten, the box is
\* un-checked and remove_tab is called for an active module.
DeselectOne(s, name) ==
    remove_tab([s EXCEPT !.checked = @ \ {name}], name)

\* select_all(): the modules of the group shown in the left panel, or every
\* module of MODULE_MAP when the group cannot be determined.
select_all(group) ==
    /\ \E how \in [1..3 -> {"ok", "early", "late"}] :
         LET list == IF group = "none" THEN Modules ELSE MODULE_GROUPS[group]
             s1 == IF Len(list) >= 1 THEN SelectOne(pl, list[1], how[1]) ELSE pl
             s2 == IF Len(list) >= 2 THEN SelectOne(s1, list[2], how[2]) ELSE s1
             s3 == IF Len(list) >= 3 THEN SelectOne(s2, list[3], how[3]) ELSE s2
         IN  pl' = s3
    /\ UNCHANGED OtherThanPl

\* deselect_all(): the modules of the group shown in the left panel, or the
\* active modules when the group cannot be determined.
deselect_all(group) ==
    /\ LET list == IF group = "none"
                   THEN SelectSeq(Modules, LAMBDA m : m \in pl.active)
                   ELSE MODULE_GROUPS[group]
           s1 == IF Len(list) >= 1 THEN DeselectOne(pl, list[1]) ELSE pl
           s2 == IF Len(list) >= 2 THEN DeselectOne(s1, list[2]) ELSE s1
           s3 == IF Len(list) >= 3 THEN DeselectOne(s2, list[3]) ELSE s2
       IN  pl' = s3
    /\ UNCHANGED OtherThanPl

\* The start method of an active module's instance starts its test worker.
StartTest(name) ==
    /\ name \in pl.active
    /\ name \notin pl.running
    /\ pl' = [pl EXCEPT !.running = @ \cup {name}]
    /\ UNCHANGED OtherThanPl

\* The test worker of an active module ends by itself.
TestEnds(name) ==
    /\ name \in pl.running
    /\ pl' = [pl EXCEPT !.running = @ \ {name}]
    /\ UNCHANGED OtherThanPl

InitPl ==
    /\ PlIdle
    /\ RunnerIdle /\ RinIdle /\ RangeIdle /\ WlIdle /\ MIdle /\ PmIdle /\ PkIdle /\ CmIdle /\ LgIdle /\ SfIdle /\ GmIdle /\ RtIdle
    /\ LwIdle
    /\ ScIdle

NextPl ==
    \/ \E i \in 1..Len(Modules) : toggle_module(Modules[i])
    \/ \E i \in 1..Len(Modules) : on_tab_closed(Modules[i])
    \/ \E group \in {"zhongzi", "qijian", "none"} : select_all(group)
    \/ \E group \in {"zhongzi", "qijian", "none"} : deselect_all(group)
    \/ \E i \in 1..Len(Modules) : StartTest(Modules[i])
    \/ \E i \in 1..Len(Modules) : TestEnds(Modules[i])

SpecPl == InitPl /\ [][NextPl]_vars

\* C33: no module instance is dropped while its test is running without its
\* worker having been asked to stop.
C33_StopBeforeDrop == pl.orphans = {}

\* C39: after every operation a module is in active_modules exactly when it
\* is in name_to_tab_id and exactly when its check box is checked.
C39_ActiveTabsCheckedAgree ==
    \A i \in 1..Len(Modules) :
        /\ Modules[i] \in pl.active <=> Modules[i] \in pl.tabs
        /\ Modules[i] \in pl.active <=> Modules[i] \in pl.checked

\* The _run worker and the control threads are ordinary threads: each one
\* that can take its next step eventually takes it.
SpecSfFair ==
    /\ SpecSf
    /\ WF_vars(SfConnect \/ SfLoopTop \/ SfPausePoint \/ SfSweep \/ SfRestoreWl
               \/ SfWaitWl \/ SfRestoreCur \/ SfRestoreTemp \/ SfClose)
    /\ \A r \in Runs : WF_vars(CtlCheck(r)) /\ WF_vars(CtlSend(r))

\* C34: a stop requested while the scan is paused makes the worker blocked
\* in _pause_point and the control thread of that scan both terminate.
C34_StopWhilePausedTerminates ==
    \A r \in Runs :
        (sfRun = r /\ sfPc = "paused" /\ sfPauseFlag /\ sfStopFlag /\ sfCtl[r] = "check")
            ~> (WorkerEnded(r) /\ sfCtl[r] = "done")

\* C35: while pause_flag is set the worker starts no new scan window and the
\* control thread sends no setpoint.
C35_NothingNewWhilePaused ==
    [][sfPauseFlag =>
          /\ (sfPc' = "sweep" => sfPc = "sweep")
          /\ sfSets' = sfSets]_vars

\* ---------------------------------------------------------------------------
\* LineWidthGUI.start_measurement
\* ---------------------------------------------------------------------------

OtherThanLw == <<runnerVars, rinVars, rangeVars, wlVars, mVars, pmVars, pkVars, cmVars, lgVars, sfVars, gmVars, rtVars, plVars, scVars>>

\* start_measurement(): refused while the worker is alive; otherwise the
\* task thread is started.
LwStart ==
    /\ lwPc \in {"idle", "ended"}
    /\ lwPc' = "init"
    /\ lwSpan' = 0
    /\ lwResults' = 0
    /\ UNCHANGED <<lwStop, lwOutput>>
    /\ UNCHANGED OtherThanLw

\* stop_measurement(): self.tester.stop() when a tester exists.
LwStopClick ==
    /\ lwPc # "idle"
    /\ ~lwStop
    /\ lwStop' = TRUE
    /\ UNCHANGED <<lwPc, lwSpan, lwResults, lwOutput>>
    /\ UNCHANGED OtherThanLw

\* The head of the task: the folders are cleaned, a new LinewidthTester (with
\* a clear stop flag) is created and connected; connect may raise, which
\* the outer except reports.
LwInitTask ==
    /\ lwPc = "init"
    /\ lwStop' = FALSE
    /\ \E raised \in BOOLEAN : lwPc' = IF raised THEN "final" ELSE "span"
    /\ UNCHANGED <<lwSpan, lwResults, lwOutput>>
    /\ UNCHANGED OtherThanLw

\* One pass of `for span in span_values`: the loop ends when the list is
\* exhausted or the stop flag is set; otherwise the span is configured and
\* measured.  measure and save_data return False once the flag is set; the
\* screenshot is stored or not found; configure and save_data may raise,
\* which ends the task through the outer except.
LwSpanPass ==
    /\ lwPc = "span"
    /\ IF lwSpan = NumSpans \/ lwStop
       THEN /\ lwPc' = "gen"
            /\ UNCHANGED <<lwSpan, lwResults>>
       ELSE /\ lwSpan' = lwSpan + 1
            /\ \E result \in {"none", "raise", "saved"} :
                 /\ lwResults' = IF result = "saved" THEN lwResults + 1 ELSE lwResults
                 /\ lwPc' = IF result = "raise" THEN "final" ELSE "span"
    /\ UNCHANGED <<lwStop, lwOutput>>
    /\ UNCHANGED OtherThanLw

\* The signal generator is connected (connect may raise, which the inner
\* except reports), configured and switched on; set_output catches a failed
\* write itself and returns False.
LwGenOn ==
    /\ lwPc = "gen"
    /\ \E how \in {"on", "write_failed", "connect_raised"} :
         /\ lwOutput' = IF how = "on" THEN TRUE ELSE lwOutput
         /\ lwPc' = IF how = "connect_raised" THEN "final" ELSE "extra"
    /\ UNCHANGED <<lwSpan, lwStop, lwResults>>
    /\ UNCHANGED OtherThanLw

\* The extra measurement with the generator on.  tester.configure or
\* save_data may raise: the inner except reports it and the statements that
\* follow in the try block, set_output(on=False) and close, are not run.
\* With the stop flag set measure returns False and nothing is saved.
LwExtra ==
    /\ lwPc = "extra"
    /\ \E result \in {"none", "raise", "saved"} :
         /\ result = "saved" => ~lwStop
         /\ lwResults' = IF result = "saved" THEN lwResults + 1 ELSE lwResults
         /\ lwPc' = IF result = "raise" THEN "final" ELSE "gen_off"
    /\ UNCHANGED <<lwSpan, lwStop, lwOutput>>
    /\ UNCHANGED OtherThanLw

\* signal_gen.set_output(on=False), whose write may fail (caught, returns
\* False), and signal_gen.close().
LwGenOff ==
    /\ lwPc = "gen_off"
    /\ \E written \in BOOLEAN : lwOutput' = IF written THEN FALSE ELSE lwOutput
    /\ lwPc' = "final"
    /\ UNCHANGED <<lwSpan, lwStop, lwResults>>
    /\ UNCHANGED OtherThanLw

\* The results are shown and the finally block closes the tester and gives
\* the buttons back.
LwFinal ==
    /\ lwPc = "final"
    /\ lwPc' = "ended"
    /\ UNCHANGED <<lwSpan, lwStop, lwResults, lwOutput>>
    /\ UNCHANGED OtherThanLw

InitLw ==
    /\ LwIdle
    /\ RunnerIdle /\ RinIdle /\ RangeIdle /\ WlIdle /\ MIdle /\ PmIdle /\ PkIdle /\ CmIdle /\ LgIdle /\ SfIdle /\ GmIdle /\ RtIdle /\ PlIdle
    /\ ScIdle

NextLw ==
    \/ LwStart
    \/ LwStopClick
    \/ LwInitTask
    \/ LwSpanPass
    \/ LwGenOn
    \/ LwExtra
    \/ LwGenOff
    \/ LwFinal

SpecLw == InitLw /\ [][NextLw]_vars

\* C37: when the LineWidth task has ended, by whatever path, the signal
\* generator output it switched on is off again.
C37_GeneratorOffAtEnd == lwPc = "ended" => ~lwOutput

\* ---------------------------------------------------------------------------
\* SingleFrequencyGUI._run: setpoint ramps and fine-scan windows
\* ---------------------------------------------------------------------------

OtherThanSc == <<runnerVars, rinVars, rangeVars, wlVars, mVars, pmVars, pkVars, cmVars, lgVars, sfVars, gmVars, rtVars, plVars, lwVars>>

MaxLimit == 2

MaxRampStep == 3

\* The limits and step read from the parameters: lower limit <= upper limit
\* and a positive step.
RampInputs ==
    {<<lo, hi, by>> : lo \in 0..MaxLimit, hi \in 0..MaxLimit, by \in 1..MaxRampStep} \ 
    {<<lo, hi, by>> \in (0..MaxLimit) \X (0..MaxLimit) \X (1..MaxRampStep) : lo > hi}

rampNoClamp(v, inc, lim) ==
    IF inc
    THEN IF v + lim[3] >= lim[2] THEN <<v + lim[3], FALSE>> ELSE <<v + lim[3], TRUE>>
    ELSE IF v - lim[3] <= lim[1] THEN <<v - lim[3], TRUE>> ELSE <<v - lim[3], FALSE>>

\* One update of a ramp in temp_cur_control_thread: the value moves by the
\* step in the current direction; on reaching or passing a limit it is set
\* to the limit and the direction is reversed.  Gives <<value, increasing>>.
ramp(v, inc, lim) ==
    IF inc
    THEN IF v + lim[3] >= lim[2] THEN <<lim[2], FALSE>> ELSE <<v + lim[3], TRUE>>
    ELSE IF v - lim[3] <= lim[1] THEN <<lim[1], TRUE>> ELSE <<v - lim[3], FALSE>>

NextCenterLate(c) ==
    IF (c + ScanStep) - ScanSpan \div 2 > f_stop
    THEN f_start + ScanSpan \div 2
    ELSE c + ScanStep

\* The end of a main-loop iteration: center += step, and back to the first
\* window when center - span/2 >= f_stop.
NextCenter(c) ==
    IF (c + ScanStep) - ScanSpan \div 2 >= f_stop
    THEN f_start + ScanSpan \div 2
    ELSE c + ScanStep

\* temp_cur_control_thread: the temperature (or current) update is due; the
\* ramp is advanced under the lock and the new value is sent with
\* lc.set_temperature_c (lc.set_current_mA).
CtlRamp(w) ==
    /\ LET r == ramp(scVal[w], scInc[w], scLim[w])
       IN  /\ scVal' = [scVal EXCEPT ![w] = r[1]]
           /\ scInc' = [scInc EXCEPT ![w] = r[2]]
    /\ UNCHANGED <<scLim, scCenter, scWrapped>>
    /\ UNCHANGED OtherThanSc

\* One iteration of the main loop: the window around center is scanned and
\* center is advanced.
ScanWindow ==
    /\ scCenter' = NextCenter(scCenter)
    /\ scWrapped' = (scWrapped \/ NextCenter(scCenter) < scCenter)
    /\ UNCHANGED <<scLim, scVal, scInc>>
    /\ UNCHANGED OtherThanSc

\* _run before its threads start: temp = temp_min, cur = cur_min, both
\* increasing, center = f_start + span / 2.
InitScan ==
    /\ scLim \in [{"temp", "cur"} -> RampInputs]
    /\ scVal = [w \in {"temp", "cur"} |-> scLim[w][1]]
    /\ scInc = [w \in {"temp", "cur"} |-> TRUE]
    /\ scCenter = f_start + ScanSpan \div 2
    /\ scWrapped = FALSE
    /\ RunnerIdle /\ RinIdle /\ RangeIdle /\ WlIdle /\ MIdle /\ PmIdle /\ PkIdle /\ CmIdle /\ LgIdle /\ SfIdle /\ GmIdle /\ RtIdle /\ PlIdle /\ LwIdle

NextScan ==
    \/ \E w \in {"temp", "cur"} : CtlRamp(w)
    \/ ScanWindow

SpecScan == InitScan /\ [][NextScan]_vars

\* C36: with lower limit <= upper limit and a positive step, every setpoint
\* the control thread sends lies within the limits, and the direction of a
\* ramp reverses exactly when the setpoint sent is the limit it was heading to.
C36_SetpointsWithinLimits ==
    [][\A w \in {"temp", "cur"} :
          (scVal'[w] # scVal[w] \/ scInc'[w] # scInc[w]) =>
              /\ scLim[w][1] <= scVal'[w]
              /\ scVal'[w] <= scLim[w][2]
              /\ (scInc'[w] # scInc[w]) <=>
                     (scVal'[w] = IF scInc[w] THEN scLim[w][2] ELSE scLim[w][1])]_vars

\* A temperature ramp whose step does not divide its range has been cut at
\* the upper limit and reversed.
C36_Witness ==
    /\ scLim["temp"] = <<0, 2, 3>>
    /\ scVal["temp"] = 2
    /\ ~scInc["temp"]

\* C38: every fine-scan window lies within [f_start, f_stop]; the centre
\* advances by one step per iteration and goes back to the first window
\* exactly when the next window would start at or beyond f_stop.
C38_WindowsWithinRange ==
    [][scCenter' # scCenter =>
          /\ f_start <= scCenter' - ScanSpan \div 2
          /\ scCenter' + ScanSpan \div 2 <= f_stop
          /\ IF (scCenter + ScanStep) - ScanSpan \div 2 >= f_stop
             THEN scCenter' = f_start + ScanSpan \div 2
             ELSE scCenter' = scCenter + ScanStep]_vars

\* The last window has been scanned and the loop is back at the first one.
C38_Witness ==
    /\ scWrapped
    /\ scCenter = f_start + ScanSpan \div 2

====
